---- MODULE Spec2Model ----
(***************************************************************************)
(* Geometry processing of offshore wind turbines (owi-metadatabase-sdk):   *)
(* BuildingBlock / SubAssembly (geometry/structures.py) and the OWT / OWTs *)
(* processing engines (geometry/processing.py).                            *)
(*                                                                         *)
(* Conventions of the model                                                *)
(*  - None is [null |-> TRUE]; a DataFrame is [null |-> FALSE, rows |-> s] *)
(*    with s the sequence of its rows in index order; a scalar is          *)
(*    [null |-> FALSE, v |-> n].                                           *)
(*  - A raised exception is the err field of an operation's result; the    *)
(*    object in the result is the object as the exception left it.         *)
(*  - Lengths of the database are millimetres and are drawn as whole       *)
(*    metres, so that the factor 1e-3 of the code is an exact division.    *)
(*  - Volumes are counted in units of pi/12 m3, which makes the frustum    *)
(*    formula pi*h/3*(r1^2 + r1*r2 + r2^2) the integer h*(d1^2+d1*d2+d2^2).*)
(*  - A title is a sequence of tokens; str.contains(x) is membership of    *)
(*    the token x.                                                         *)
(***************************************************************************)
EXTENDS Integers, Sequences, FiniteSets, TLC

VARIABLES owt, last, fleet, bb, subassembly, api

vars == <<owt, last, fleet, bb, subassembly, api>>

(***************************************************************************)
(* Bounds of the model.                                                    *)
(***************************************************************************)
MaxCans == 2
MaxOverlap == 3
MaxTurbines == 2
MaxTitles == 3
MaxPileCans == 3
MaxCutoff == 10
MaxBlocks == 2
MaxFetches == 3
MaxHeight == 2
MaxDiameter == 3
MaxWall == 4

(***************************************************************************)
(* Program constants.                                                      *)
(***************************************************************************)
MmPerM == 1000
YoungsModulus == 210

ATTR_PROC ==
  << "pile_toe", "rna", "tower", "transition_piece", "monopile",
     "tw_lumped_mass", "tp_lumped_mass", "mp_lumped_mass",
     "tp_distributed_mass", "mp_distributed_mass", "grout" >>

ATTR_SPEC == << "full_structure", "tp_skirt", "substructure" >>

ATTR_FULL ==
  << "all_tubular_structures", "all_distributed_mass", "all_lumped_mass",
     "all_turbines" >>

Kinds == {"TW", "TP", "MP"}

(***************************************************************************)
(* Values.                                                                 *)
(***************************************************************************)
Null == [null |-> TRUE]
Some(v) == [null |-> FALSE, v |-> v]
DF(rows) == [null |-> FALSE, rows |-> rows]
NoError == "none"

Range(s) == {s[i] : i \in DOMAIN s}
InList(x, s) == \E i \in DOMAIN s : s[i] = x
Contains(title, tok) == InList(tok, title)

(* the element of a one-element set: The({e(x) : x \in {v}}) is e with x *)
(* standing for the value v, computed once                              *)
The(S) == CHOOSE x \in S : TRUE

MapSeq(s, f(_)) == The({ [i \in 1..Len(v) |-> f(v[i])] \o <<>> : v \in {s} })

RECURSIVE Sum(_)
Sum(s) == IF Len(s) = 0 THEN 0 ELSE s[1] + Sum(Tail(s))

SumOf(s, f(_)) == The({ Sum(v) : v \in {MapSeq(s, f)} })

(* result of a method: the object afterwards, the exception, the value *)
Ret(o, v) == [o |-> o, err |-> NoError, val |-> v]
Raise(o, e) == [o |-> o, err |-> e, val |-> Null]

(***************************************************************************)
(* BuildingBlock                                                           *)
(* A field of the raw record is absent, None, NaN or a number.             *)
(***************************************************************************)
Absent == [st |-> "absent"]
None == [st |-> "none"]
NaN == [st |-> "nan"]
Val(n) == [st |-> "val", v |-> n]

cond ==
  << <<"bottom_outer_diameter", "tubular_section">>,
     <<"mass", "lumped_mass">>,
     <<"mass_distribution", "distributed_mass">> >>

Present(json, k) == json[k].st = "val"

RECURSIVE typeFrom(_, _)
typeFrom(json, i) ==
  IF i > Len(cond) THEN [err |-> "ValueError: Could not find supported building block type.",
                         val |-> "none"]
  ELSE IF Present(json, cond[i][1]) THEN [err |-> NoError, val |-> cond[i][2]]
  ELSE typeFrom(json, i + 1)

type_first_match(json) == typeFrom(json, 1)

(* the classification with mass looked up before bottom_outer_diameter *)
type_mass_first(json) ==
  IF Present(json, "mass") THEN [err |-> NoError, val |-> "lumped_mass"]
  ELSE type_first_match(json)

type(json) == type_first_match(json)

Quad(a, b) == a * a + a * b + b * b

(* _calc_cone_volume, in pi/12 m3: pi*h/3*(r1^2 + r1*r2 + r2^2) with r = d/2 *)
calc_cone_volume(d_bottom, d_top, h) == h * Quad(d_bottom, d_top)

Truthy(f) == f.st = "val" /\ f.v # 0

(* bool(x) of a number, NaN (true) or None (false); a missing key reads as None *)
Bool(f) == f.st = "nan" \/ Truthy(f)

(* arithmetic on the fields fs: TypeError with a None among them, NaN with *)
(* a NaN among them, else the number n                                    *)
Arith(fs, n) ==
  IF \E i \in DOMAIN fs : fs[i].st \in {"none", "absent"}
  THEN [err |-> "TypeError", val |-> None]
  ELSE IF \E i \in DOMAIN fs : fs[i].st = "nan" THEN [err |-> NoError, val |-> NaN]
  ELSE [err |-> NoError, val |-> Val(n)]

volume_outer_cone(json) ==
  calc_cone_volume(json.bottom_outer_diameter.v \div MmPerM,
                   json.top_outer_diameter.v \div MmPerM,
                   json.height.v \div MmPerM)

volume_inner_cone(json) ==
  calc_cone_volume((json.bottom_outer_diameter.v - 2 * json.wall_thickness.v) \div MmPerM,
                   (json.top_outer_diameter.v - 2 * json.wall_thickness.v) \div MmPerM,
                   json.height.v \div MmPerM)

volume(json) ==
  IF type(json).err # NoError THEN [err |-> type(json).err, val |-> None]
  ELSE IF type(json).val = "tubular_section"
  THEN IF Bool(json.height)
       THEN Arith(<<json.height, json.wall_thickness, json.bottom_outer_diameter,
                    json.top_outer_diameter>>,
                  volume_outer_cone(json) - volume_inner_cone(json))
       ELSE [err |-> "ValueError: Height data is missing.", val |-> None]
  ELSE IF type(json).val = "distributed_mass"
  THEN IF Bool(json.height)
       THEN Arith(<<json.height, json.volume_distribution>>,
                  (json.volume_distribution.v * json.height.v) \div MmPerM)
       ELSE [err |-> "ValueError: Height data is missing.", val |-> None]
  ELSE [err |-> NoError, val |-> None]

diameter_str(json) ==
  IF type(json).val = "tubular_section"
     /\ Truthy(json.top_outer_diameter) /\ Truthy(json.bottom_outer_diameter)
  THEN IF json.top_outer_diameter.v # json.bottom_outer_diameter.v
       THEN <<json.bottom_outer_diameter.v, json.top_outer_diameter.v>>
       ELSE <<json.bottom_outer_diameter.v>>
  ELSE <<>>

mass(json) ==
  IF type(json).val = "lumped_mass" THEN [err |-> NoError, val |-> json.mass]
  ELSE IF type(json).val = "distributed_mass"
  THEN IF Bool(json.height)
       THEN Arith(<<json.height, json.mass_distribution>>,
                  (json.mass_distribution.v * json.height.v) \div MmPerM)
       ELSE [err |-> "ValueError: Height data is missing.", val |-> None]
  ELSE IF type(json).val = "tubular_section"
  THEN IF volume(json).err # NoError THEN volume(json)
       ELSE IF Bool(json.density) /\ Bool(volume(json).val)
       THEN Arith(<<json.density, volume(json).val>>,
                  volume(json).val.v * json.density.v)
       ELSE [err |-> "ValueError: Density or volume data is missing.", val |-> None]
  ELSE [err |-> "ValueError: Unsupported building block type.", val |-> None]

as_dict(json) ==
  [ title |-> json.title,
    z |-> json.z_position,
    OD |-> diameter_str(json),
    wall_thickness |-> IF type(json).val = "tubular_section"
                       THEN json.wall_thickness ELSE None,
    height |-> json.height,
    volume |-> volume(json).val,
    mass |-> mass(json).val ]

(***************************************************************************)
(* SubAssembly                                                             *)
(***************************************************************************)
RECURSIVE InsertDesc(_, _)
InsertDesc(r, s) ==
  IF s = <<>> THEN <<r>>
  ELSE IF r.z > Head(s).z THEN <<r>> \o s
  ELSE <<Head(s)>> \o InsertDesc(r, Tail(s))

RECURSIVE SortDesc(_)
SortDesc(s) ==
  IF s = <<>> THEN <<>>
  ELSE The({ InsertDesc(Head(s), t) : t \in {SortDesc(Tail(s))} })

as_df(sa) == The({ DF(SortDesc(out)) : out \in {MapSeq(sa.bb, as_dict)} })

absolute_bottom(sa) ==
  The({ (rows[Len(rows)].z + sa.position_z) \div MmPerM : rows \in {as_df(sa).rows} })

(* dropna(how="any", axis=0) *)
dropna(rows) ==
  SelectSeq(rows, LAMBDA r : r.height.st = "val" /\ r.wall_thickness.st = "val"
                             /\ r.volume.st = "val")

absolute_top(sa) ==
  The({ (rows[1].z + sa.position_z + rows[1].height.v) \div MmPerM :
        rows \in { dropna(as_df(sa).rows) } })

(***************************************************************************)
(* SubAssembly: the building blocks fetched from the API and kept in       *)
(* self.bb.  The subassembly holds bb (None or the list of the blocks), and *)
(* api, which is "none" when no api_object was given; the API itself holds  *)
(* the records of the database (db) and the number of requests served.      *)
(* A read is threaded through a record s: the subassembly and the API as    *)
(* the read leaves them, the exception raised, the value returned, and the  *)
(* lists that the property building_blocks handed out on the way (reads).   *)
(***************************************************************************)
Blocks(list) == [null |-> FALSE, list |-> list]

Reading(s_a, a) == [sa |-> s_a, api |-> a, err |-> NoError, val |-> Null, reads |-> <<>>]

Failed(s, e) == [s EXCEPT !.err = e, !.val = Null]

(* GeometryAPI.get_buildingblocks(subassembly_id=...): one request; a list *)
(* output exists when the frame that came back has a row                   *)
get_buildingblocks(a) ==
  [ api |-> [a EXCEPT !.calls = @ + 1], data |-> a.db, exists |-> Len(a.db) # 0 ]

(* a subassembly that never finds its blocks in self.bb *)
NeverCached(s_a) == FALSE

(* `if self.bb:` a list that is neither None nor empty *)
Cached(s_a) == ~s_a.bb.null /\ Len(s_a.bb.list) # 0

building_blocks(s) ==
  IF Cached(s.sa)
  THEN [s EXCEPT !.val = s.sa.bb, !.reads = Append(@, s.sa.bb)]
  ELSE IF s.sa.api = "none" THEN Failed(s, "ValueError: No API configured")
  ELSE The({ IF r.exists
             THEN [s EXCEPT !.api = r.api, !.sa.bb = Blocks(r.data),
                            !.val = Blocks(r.data), !.reads = Append(@, Blocks(r.data))]
             ELSE Failed([s EXCEPT !.api = r.api], "ValueError: No building blocks found")
           : r \in {get_buildingblocks(s.api)} })

(* `if self.building_blocks: for bb in self.building_blocks: ...`: the     *)
(* property is read twice, and body(s, list) runs on the second list       *)
IfBlocks(s0, body(_, _), otherwise(_)) ==
  The({ IF s1.err # NoError THEN s1
        ELSE IF Len(s1.val.list) = 0 THEN otherwise(s1)
        ELSE The({ IF s2.err # NoError THEN s2 ELSE body(s2, s2.val.list)
                 : s2 \in {building_blocks(s1)} })
      : s1 \in {building_blocks(s0)} })

lower(tok) ==
  CASE tok = "Grout" -> "grout"
    [] tok = "TP" -> "tp"
    [] tok = "MP" -> "mp"
    [] tok = "TW" -> "tw"
    [] OTHER -> tok

RECURSIVE SumHeights(_, _)
SumHeights(list, acc) ==
  IF list = <<>> THEN [err |-> NoError, val |-> acc]
  ELSE The({ IF t.err # NoError THEN [err |-> t.err, val |-> 0]
             ELSE IF t.val = "tubular_section"
                     /\ ~Contains(MapSeq(Head(list).title, lower), "grout")
                     /\ Truthy(Head(list).height)
             THEN SumHeights(Tail(list), acc + Head(list).height.v)
             ELSE SumHeights(Tail(list), acc)
           : t \in {type(Head(list))} })

SubAssembly_height(s0) ==
  IfBlocks(s0,
           LAMBDA s, list : The({ IF h.err # NoError THEN Failed(s, h.err)
                                  ELSE [s EXCEPT !.val = Some(h.val)]
                                : h \in {SumHeights(list, 0)} }),
           LAMBDA s : Failed(s, "ValueError: No building blocks found"))

RECURSIVE SumMasses(_, _)
SumMasses(list, acc) ==
  IF list = <<>> THEN [err |-> NoError, val |-> acc]
  ELSE The({ IF m.err # NoError THEN [err |-> m.err, val |-> 0]
             ELSE IF Truthy(m.val) THEN SumMasses(Tail(list), acc + m.val.v)
             ELSE SumMasses(Tail(list), acc)
           : m \in {mass(Head(list))} })

SubAssembly_mass(s0) ==
  IfBlocks(s0,
           LAMBDA s, list : The({ IF m.err # NoError THEN Failed(s, m.err)
                                  ELSE [s EXCEPT !.val = Some(m.val)]
                                : m \in {SumMasses(list, 0)} }),
           LAMBDA s : Failed(s, "ValueError: No building blocks found"))

(* BuildingBlock.outline of a tubular section: the corners bottom right,   *)
(* bottom left, top left, top right                                        *)
BuildingBlock_outline(json) ==
  [ z_pos |-> json.z_position,
    x |-> << json.bottom_outer_diameter.v \div 2, -(json.bottom_outer_diameter.v \div 2),
             -(json.top_outer_diameter.v \div 2), json.top_outer_diameter.v \div 2 >>,
    z |-> << json.z_position, json.z_position,
             json.z_position + json.height.v, json.z_position + json.height.v >> ]

RECURSIVE InsertAsc(_, _)
InsertAsc(r, s) ==
  IF s = <<>> THEN <<r>>
  ELSE IF r.z_pos < Head(s).z_pos THEN <<r>> \o s
  ELSE <<Head(s)>> \o InsertAsc(r, Tail(s))

(* sorted(..., key=z_pos): ascending and stable *)
RECURSIVE SortAsc(_)
SortAsc(s) ==
  IF s = <<>> THEN <<>>
  ELSE The({ InsertAsc(s[Len(s)], t) : t \in {SortAsc(SubSeq(s, 1, Len(s) - 1))} })

RECURSIVE Reversed(_)
Reversed(s) == IF s = <<>> THEN <<>> ELSE Reversed(Tail(s)) \o <<Head(s)>>

RECURSIVE Chain(_)
Chain(s) == IF s = <<>> THEN <<>> ELSE Head(s) \o Chain(Tail(s))

Trace(outlines, position_z) ==
  [ x |-> Chain(MapSeq(outlines, LAMBDA ol : <<ol.x[1], ol.x[4]>>))
          \o Chain(MapSeq(Reversed(outlines), LAMBDA ol : <<ol.x[3], ol.x[2]>>)),
    z |-> MapSeq(Chain(MapSeq(outlines, LAMBDA ol : <<ol.z[1], ol.z[4]>>))
                 \o Chain(MapSeq(Reversed(outlines), LAMBDA ol : <<ol.z[3], ol.z[2]>>)),
                 LAMBDA z : z + position_z) ]

(* SubAssembly.outline reads the property once *)
SubAssembly_outline(s0) ==
  The({ IF s1.err # NoError THEN s1
        ELSE IF \E i \in 1..Len(s1.val.list) : type(s1.val.list[i]).err # NoError
        THEN Failed(s1, "ValueError: Could not find supported building block type.")
        ELSE The({ [s1 EXCEPT !.val = Some(Trace(SortAsc(MapSeq(tubes, BuildingBlock_outline)),
                                                 s1.sa.position_z))]
                 : tubes \in { SelectSeq(s1.val.list,
                                         LAMBDA b : type(b).val = "tubular_section") } })
      : s1 \in {building_blocks(s0)} })

Loaded(s_a, list) == [position_z |-> s_a.position_z, bb |-> list]

SubAssembly_as_df(s0) ==
  IfBlocks(s0,
           LAMBDA s, list : [s EXCEPT !.val = as_df(Loaded(s.sa, list))],
           LAMBDA s : Failed(s, "KeyError: title"))

SubAssembly_absolute_bottom(s0) ==
  IfBlocks(s0,
           LAMBDA s, list : [s EXCEPT !.val = Some(absolute_bottom(Loaded(s.sa, list)))],
           LAMBDA s : Failed(s, "KeyError: title"))

(* dropna leaves the rows without a missing value: .iloc[0] of none of    *)
(* them is an IndexError                                                  *)
SubAssembly_absolute_top(s0) ==
  IfBlocks(s0,
           LAMBDA s, list :
             IF dropna(as_df(Loaded(s.sa, list)).rows) # <<>>
             THEN [s EXCEPT !.val = Some(absolute_top(Loaded(s.sa, list)))]
             ELSE Failed(s, "IndexError"),
           LAMBDA s : Failed(s, "KeyError: title"))

(***************************************************************************)
(* OWT: construction                                                       *)
(***************************************************************************)
(* dict(zip(types, list)): a later subassembly of a type replaces an earlier one *)
LastOfType(subassemblies, k) ==
  LET idx == {i \in DOMAIN subassemblies : subassemblies[i].subassembly_type = k}
  IN subassemblies[CHOOSE i \in idx : \A j \in idx : j <= i]

set_subassemblies(subassemblies) ==
  [k \in {subassemblies[i].subassembly_type : i \in DOMAIN subassemblies}
     |-> LastOfType(subassemblies, k)]

(* the keys of dict(zip(keys, values)), in insertion order *)
RECURSIVE dict_keys(_)
dict_keys(ks) ==
  IF Len(ks) = 0 THEN <<>>
  ELSE LET front == dict_keys(SubSeq(ks, 1, Len(ks) - 1))
       IN IF InList(ks[Len(ks)], front) THEN front ELSE Append(front, ks[Len(ks)])

set_members(sub_assemblies, k) ==
  IF k \in DOMAIN sub_assemblies THEN as_df(sub_assemblies[k]) ELSE Null

OWT_init(subassemblies, location, tower_base, pile_head) ==
  LET given(x) == ~x.null /\ x.v # 0
      derive == ~given(tower_base) \/ ~given(pile_head)
  IN The({
     [ _init_proc |-> FALSE,
       _init_spec_part |-> FALSE,
       _init_spec_full |-> FALSE,
       sub_assemblies |-> sas,
       sub_assemblies_keys |->
         dict_keys(MapSeq(subassemblies, LAMBDA sa : sa.subassembly_type)),
       tw_sub_assemblies |-> set_members(sas, "TW"),
       tp_sub_assemblies |-> set_members(sas, "TP"),
       mp_sub_assemblies |-> set_members(sas, "MP"),
       pile_toe |-> Null, rna |-> Null, tower |-> Null,
       transition_piece |-> Null, monopile |-> Null,
       tw_lumped_mass |-> Null, tp_lumped_mass |-> Null, mp_lumped_mass |-> Null,
       tp_distributed_mass |-> Null, mp_distributed_mass |-> Null, grout |-> Null,
       full_structure |-> Null, tp_skirt |-> Null, substructure |-> Null,
       water_depth |-> location,
       tower_base |-> IF derive
                      THEN IF "TW" \in DOMAIN sas THEN Some(absolute_bottom(sas["TW"]))
                           ELSE IF "TP" \in DOMAIN sas THEN Some(absolute_top(sas["TP"]))
                           ELSE Null
                      ELSE tower_base,
       pile_head |-> IF derive
                     THEN IF "MP" \in DOMAIN sas THEN Some(absolute_top(sas["MP"]))
                          ELSE Null
                     ELSE pile_head ]
     : sas \in {set_subassemblies(subassemblies) @@ <<>>} })

(***************************************************************************)
(* OWT: geometry of the subassemblies in mLAT                              *)
(***************************************************************************)
(* the rows laid on top of each other with no height *)
ElevatedFlat(rows, base) ==
  MapSeq(rows, LAMBDA r :
    [ title |-> r.title, OD |-> r.OD, height |-> r.height, mass |-> r.mass,
      volume |-> r.volume, wall_thickness |-> r.wall_thickness, z |-> r.z,
      elev_to |-> base + r.z \div MmPerM,
      elev_from |-> base + r.z \div MmPerM ])

Elevated(rows, base) ==
  MapSeq(rows, LAMBDA r :
    [ title |-> r.title, OD |-> r.OD, height |-> r.height, mass |-> r.mass,
      volume |-> r.volume, wall_thickness |-> r.wall_thickness, z |-> r.z,
      elev_to |-> base + r.z \div MmPerM,
      elev_from |-> base + r.z \div MmPerM + r.height.v \div MmPerM ])

(* df["height"].sum() skips the missing heights *)
HeightSum(rows) == SumOf(rows, LAMBDA r : IF r.height.st = "val" THEN r.height.v ELSE 0)

(* the monopile hung from the toe of the call before, once there is one *)
anchor_at_toe(o, idx) ==
  IF idx = "mp" THEN (IF o.pile_toe.null THEN o.pile_head ELSE o.pile_toe)
  ELSE o.tower_base

(* the elevation that the stack of idx hangs from: self.tower_base for the *)
(* tower and the transition piece, self.pile_head for the monopile         *)
anchor(o, idx) == IF idx = "mp" THEN o.pile_head ELSE o.tower_base

set_df_structure(o, idx) ==
  IF idx = "tw" THEN
    IF o.tw_sub_assemblies.null
    THEN Raise(o, "ValueError: Tower subassembly data not found.")
    ELSE LET df == SelectSeq(o.tw_sub_assemblies.rows, LAMBDA r : Contains(r.title, idx))
         IN IF anchor(o, idx).null THEN Raise(o, "TypeError")
            ELSE Ret(o, DF(Elevated(df, anchor(o, idx).v)))
  ELSE IF idx = "tp" THEN
    IF o.tp_sub_assemblies.null
    THEN Raise(o, "ValueError: Transition piece subassembly data not found.")
    ELSE LET df == SelectSeq(o.tp_sub_assemblies.rows,
                             LAMBDA r : Contains(r.title, idx) /\ ~Contains(r.title, "grout"))
         IN IF anchor(o, idx).null THEN Raise(o, "TypeError")
            ELSE Ret(o, DF(Elevated(df, anchor(o, idx).v - HeightSum(df) \div MmPerM)))
  ELSE IF idx = "mp" THEN
    IF o.mp_sub_assemblies.null
    THEN Raise(o, "ValueError: Monopile subassembly data not found.")
    ELSE LET df == SelectSeq(o.mp_sub_assemblies.rows, LAMBDA r : Contains(r.title, idx))
         IN IF anchor(o, idx).null THEN Raise(o, "TypeError")
            ELSE LET toe == anchor(o, idx).v - HeightSum(df) \div MmPerM
                 IN Ret([o EXCEPT !.pile_toe = Some(toe)], DF(Elevated(df, toe)))
  ELSE Raise(o, "ValueError: Unknown index.")

(* OD is "bottom/top" or a single value: d_to is the first part, d_from the second *)
process_structure_geometry(o, idx) ==
  The({
     IF r0.err # NoError THEN r0
     ELSE Ret(r0.o, DF(MapSeq(r0.val.rows, LAMBDA r :
            [ title |-> r.title,
              elev_from |-> r.elev_from,
              elev_to |-> r.elev_to,
              Height |-> r.height.v \div MmPerM,
              d_from |-> (IF Len(r.OD) > 1 THEN r.OD[2] ELSE r.OD[1]) \div MmPerM,
              d_to |-> r.OD[1] \div MmPerM,
              Volume |-> r.volume.v,
              wall_thickness |-> r.wall_thickness.v,
              Youngs |-> YoungsModulus,
              Mass |-> r.mass.v \div MmPerM,
              rho |-> r.mass.v \div r.height.v,
              Subassembly |-> "" ])))
     : r0 \in {set_df_structure(o, idx)} })

(***************************************************************************)
(* OWT: RNA, lumped masses, distributed masses                             *)
(***************************************************************************)
MassRow(r, zlat) ==
  [ title |-> r.title, Z |-> zlat, Mass |-> r.mass.v \div MmPerM, Subassembly |-> "" ]

DistRow(r, zlat) ==
  [ title |-> r.title, Z |-> zlat, Height |-> r.height.v \div MmPerM,
    Mass |-> r.mass.v \div MmPerM, Volume |-> r.volume, Subassembly |-> "" ]

process_rna(o) ==
  IF o.tw_sub_assemblies.null
  THEN Raise(o, "ValueError: Tower subassembly data not found.")
  ELSE LET rna == SelectSeq(o.tw_sub_assemblies.rows, LAMBDA r : Contains(r.title, "RNA"))
       IN IF o.tower_base.null THEN Raise(o, "TypeError")
          ELSE Ret([o EXCEPT !.rna =
                      DF(MapSeq(rna, LAMBDA r : MassRow(r, o.tower_base.v + r.z \div MmPerM)))],
                   Null)

(* set_df_appurtenances followed by the column conversion of process_lumped_masses *)
process_lumped_masses(o, idx) ==
  IF idx = "TW" THEN
    IF o.tw_sub_assemblies.null
    THEN Raise(o, "ValueError: Tower subassembly data not found.")
    ELSE LET df == SelectSeq(o.tw_sub_assemblies.rows, LAMBDA r : Contains(r.title, idx))
         IN IF o.tower_base.null THEN Raise(o, "TypeError")
            ELSE Ret(o, DF(MapSeq(df, LAMBDA r : MassRow(r, o.tower_base.v + r.z \div MmPerM))))
  ELSE IF idx = "TP" THEN
    IF o.tp_sub_assemblies.null
    THEN Raise(o, "ValueError: Transition piece subassembly data not found.")
    ELSE LET df == SelectSeq(o.tp_sub_assemblies.rows,
                             LAMBDA r : Contains(r.title, idx) /\ r.height.st # "val")
             bottom == o.sub_assemblies["TP"].position_z \div MmPerM
         IN Ret(o, DF(MapSeq(df, LAMBDA r : MassRow(r, bottom + r.z \div MmPerM))))
  ELSE IF idx = "MP" THEN
    IF o.mp_sub_assemblies.null
    THEN Raise(o, "ValueError: Monopile subassembly data not found.")
    ELSE LET df == SelectSeq(o.mp_sub_assemblies.rows,
                             LAMBDA r : Contains(r.title, idx) /\ r.height.st # "val")
         IN IF o.pile_toe.null THEN Raise(o, "TypeError")
            ELSE Ret(o, DF(MapSeq(df, LAMBDA r : MassRow(r, o.pile_toe.v + r.z \div MmPerM))))
  ELSE Raise(o, "ValueError: Unknown index.")

(* set_df_distributed_appurtenances followed by the column conversion of *)
(* process_distributed_lumped_masses                                     *)
process_distributed_lumped_masses(o, idx) ==
  IF idx = "TP" \/ idx = "grout" THEN
    IF o.tp_sub_assemblies.null
    THEN Raise(o, "ValueError: Transition piece subassembly data not found.")
    ELSE LET df == SelectSeq(o.tp_sub_assemblies.rows,
                             LAMBDA r : Contains(r.title, idx) /\ r.height.st = "val")
         IN IF o.tower_base.null THEN Raise(o, "TypeError")
            ELSE LET bottom_tp == o.tower_base.v - o.tp_sub_assemblies.rows[1].z \div MmPerM
                 IN Ret(o, DF(MapSeq(df, LAMBDA r : DistRow(r, bottom_tp + r.z \div MmPerM))))
  ELSE IF idx = "MP" THEN
    IF o.mp_sub_assemblies.null
    THEN Raise(o, "ValueError: Monopile subassembly data not found.")
    ELSE LET df == SelectSeq(o.mp_sub_assemblies.rows,
                             LAMBDA r : Contains(r.title, idx) /\ r.height.st = "val")
         IN IF o.pile_toe.null THEN Raise(o, "TypeError")
            ELSE Ret(o, DF(MapSeq(df, LAMBDA r : DistRow(r, o.pile_toe.v + r.z \div MmPerM))))
  ELSE Raise(o, "ValueError: Unknown index or non distributed lumped masses located outside the transition piece.")

(***************************************************************************)
(* OWT.process_structure                                                   *)
(* A step is <<attribute assigned, method, idx>>.                          *)
(***************************************************************************)
StepsTW == << <<"rna", "rna", "">>, <<"tower", "geom", "tw">>,
              <<"tw_lumped_mass", "lump", "TW">> >>
StepsTP == << <<"transition_piece", "geom", "tp">>, <<"tp_lumped_mass", "lump", "TP">>,
              <<"tp_distributed_mass", "dist", "TP">>, <<"grout", "dist", "grout">> >>
StepsMP == << <<"monopile", "geom", "mp">>, <<"mp_lumped_mass", "lump", "MP">>,
              <<"mp_distributed_mass", "dist", "MP">> >>
StepsFull ==
  << <<"rna", "rna", "">>, <<"tower", "geom", "tw">>,
     <<"transition_piece", "geom", "tp">>, <<"monopile", "geom", "mp">>,
     <<"tw_lumped_mass", "lump", "TW">>, <<"tp_lumped_mass", "lump", "TP">>,
     <<"mp_lumped_mass", "lump", "MP">>, <<"tp_distributed_mass", "dist", "TP">>,
     <<"mp_distributed_mass", "dist", "MP">>, <<"grout", "dist", "grout">> >>

(* the masses of the monopile are placed before its geometry is processed *)
StepsMassesFirst(option) ==
  IF option = "full"
  THEN << <<"rna", "rna", "">>, <<"tower", "geom", "tw">>,
          <<"transition_piece", "geom", "tp">>,
          <<"tw_lumped_mass", "lump", "TW">>, <<"tp_lumped_mass", "lump", "TP">>,
          <<"mp_lumped_mass", "lump", "MP">>, <<"tp_distributed_mass", "dist", "TP">>,
          <<"mp_distributed_mass", "dist", "MP">>, <<"grout", "dist", "grout">>,
          <<"monopile", "geom", "mp">> >>
  ELSE IF option = "TW" THEN StepsTW
  ELSE IF option = "TP" THEN StepsTP
  ELSE IF option = "MP"
  THEN << <<"mp_lumped_mass", "lump", "MP">>, <<"mp_distributed_mass", "dist", "MP">>,
          <<"monopile", "geom", "mp">> >>
  ELSE <<>>

(* every option runs the steps of the whole structure *)
StepsOfAnyOption(option) == StepsFull

StepsOf(option) ==
  IF option = "full" THEN StepsFull
  ELSE IF option = "TW" THEN StepsTW
  ELSE IF option = "TP" THEN StepsTP
  ELSE IF option = "MP" THEN StepsMP
  ELSE <<>>

RunStep(o, step) ==
  IF step[2] = "rna" THEN process_rna(o)
  ELSE The({ IF r.err # NoError THEN r
             ELSE Ret([r.o EXCEPT ![step[1]] = r.val], Null)
             : r \in { IF step[2] = "geom" THEN process_structure_geometry(o, step[3])
                       ELSE IF step[2] = "lump" THEN process_lumped_masses(o, step[3])
                       ELSE process_distributed_lumped_masses(o, step[3]) } })

RECURSIVE RunSteps(_, _)
RunSteps(o, steps) ==
  IF Len(steps) = 0 THEN Ret(o, Null)
  ELSE The({ IF r.err # NoError THEN r ELSE RunSteps(r.o, Tail(steps))
             : r \in {RunStep(o, steps[1])} })

process_structure(o, option) ==
  The({ RunSteps(o1, StepsOf(option)) : o1 \in {[o EXCEPT !._init_proc = TRUE]} })

(***************************************************************************)
(* OWT: joint of transition piece and monopile                             *)
(***************************************************************************)
(* the can with its geometry recomputed and its mass left as it was *)
can_keep_mass(row) ==
  LET height == row.elev_from - row.elev_to
      wt == row.wall_thickness \div MmPerM
      vol == calc_cone_volume(row.d_from, row.d_to, height)
             - calc_cone_volume(row.d_from - 2 * wt, row.d_to - 2 * wt, height)
  IN [ Height |-> height, Volume |-> vol, Mass |-> row.Mass, rho |-> row.Mass \div height ]

can_adjust_properties(row) ==
  LET density == row.Mass \div row.Volume
      height == row.elev_from - row.elev_to
      wt == row.wall_thickness \div MmPerM
      volume_out == calc_cone_volume(row.d_from, row.d_to, height)
      volume_in == calc_cone_volume(row.d_from - 2 * wt, row.d_to - 2 * wt, height)
      vol == volume_out - volume_in
      m == vol * density
  IN [ Height |-> height, Volume |-> vol, Mass |-> m, rho |-> m \div height ]

(* np.interp(x, xp, fp) for two points: numpy looks x up in xp assuming xp *)
(* increasing, and does not check that it is                              *)
interp(x, xp, fp) ==
  IF x > xp[2] THEN fp[2]
  ELSE IF x < xp[1] THEN fp[1]
  ELSE IF x >= xp[2] THEN fp[2]
  ELSE IF x = xp[1] THEN fp[1]
  ELSE fp[1] + ((fp[2] - fp[1]) * (x - xp[1])) \div (xp[2] - xp[1])

(* df.loc[label, cols] = ...: every row carrying the label *)
SetLoc(rows, label, f(_)) ==
  MapSeq(rows, LAMBDA r : IF r.title = label THEN f(r) ELSE r)

(* the can is returned as it came *)
can_unmodified(df, altitude, position) ==
  IF Len(df) = 0 THEN [err |-> "IndexError", val |-> Null]
  ELSE [err |-> NoError, val |-> DF(df)]

(* the row at ind with its diameter at the moved end read off np.interp *)
can_diameter(df1, ind, altitude) ==
  interp(altitude, <<df1[ind].elev_from, df1[ind].elev_to>>,
         <<df1[ind].d_from, df1[ind].d_to>>)

can_modification(df, altitude, position) ==
  IF Len(df) = 0 THEN [err |-> "IndexError", val |-> Null]
  ELSE
    LET ind == IF position = "bottom" THEN Len(df) ELSE 1
        row_index == df[ind].title
    IN The({ The({ The({ The({
         [ err |-> NoError,
           val |-> DF(SetLoc(df2, row_index, LAMBDA r :
                    [r EXCEPT !.Height = can.Height, !.Volume = can.Volume,
                              !.Mass = can.Mass, !.rho = can.rho])) ]
         : can \in {can_adjust_properties(df2[ind])} })
         : df2 \in { SetLoc(df1, row_index, LAMBDA r :
                       IF position = "bottom" THEN [r EXCEPT !.d_to = d]
                       ELSE [r EXCEPT !.d_from = d]) } })
         : d \in {can_diameter(df1, ind, altitude)} })
         : df1 \in { SetLoc(df, row_index, LAMBDA r :
                       IF position = "bottom" THEN [r EXCEPT !.elev_to = altitude]
                       ELSE [r EXCEPT !.elev_from = altitude]) } })

(* the cans are cut in the rows of transition_piece itself, not in a copy *)
join_tp_mp_in_place(o1) ==
  IF o1.pile_head.null THEN Raise(o1, "TypeError")
  ELSE
    LET mp_head == o1.pile_head.v
        tp == o1.transition_piece.rows
    IN The({
       IF Len(df) = 0 THEN Raise(o1, "IndexError")
       ELSE The({ The({
              IF skirt.err # NoError THEN Raise(o2, skirt.err)
              ELSE Ret([o2 EXCEPT !.tp_skirt = skirt.val,
                                  !.transition_piece =
                                     DF(SubSeq(o2.substructure.rows, 1, Len(df))
                                        \o skirt.val.rows)], Null)
              : skirt \in { can_modification(
                              SelectSeq(tp, LAMBDA r : r.elev_to < mp_head),
                              mp_head, "top") } })
              : o2 \in { [o1 EXCEPT !.substructure =
                            DF((IF df[1].elev_to # mp_head
                                THEN can_modification(df, mp_head, "bottom").val.rows
                                ELSE df)
                               \o o1.monopile.rows)] } })
       : df \in {SelectSeq(tp, LAMBDA r : r.elev_from > mp_head)} })

(* the branch of assembly_tp_mp taken when both tables exist *)
join_tp_mp(o1) ==
  IF o1.pile_head.null THEN Raise(o1, "TypeError")
  ELSE
    LET mp_head == o1.pile_head.v
        tp == o1.transition_piece.rows
    IN The({
       IF Len(df) = 0 THEN Raise(o1, "IndexError")
       ELSE The({ The({
              IF skirt.err # NoError THEN Raise(o2, skirt.err)
              ELSE Ret([o2 EXCEPT !.tp_skirt = skirt.val], Null)
              : skirt \in { can_modification(
                              SelectSeq(tp, LAMBDA r : r.elev_to < mp_head),
                              mp_head, "top") } })
              : o2 \in { [o1 EXCEPT !.substructure =
                            DF((IF df[1].elev_to # mp_head
                                THEN can_modification(df, mp_head, "bottom").val.rows
                                ELSE df)
                               \o o1.monopile.rows)] } })
       : df \in {SelectSeq(tp, LAMBDA r : r.elev_from > mp_head)} })

(* a missing table is passed over in silence *)
assembly_tp_mp_silent(o) ==
  The({ IF ~o1.transition_piece.null /\ ~o1.monopile.null
        THEN join_tp_mp(o1)
        ELSE Ret(o1, Null)
        : o1 \in {[o EXCEPT !._init_spec_part = TRUE]} })

assembly_tp_mp(o) ==
  The({ IF ~o1.transition_piece.null /\ ~o1.monopile.null
        THEN join_tp_mp(o1)
        ELSE Raise(o1, "TypeError: TP or MP items need to be processed before!")
        : o1 \in {[o EXCEPT !._init_spec_part = TRUE]} })

(* the tower is looked at before the substructure *)
assembly_full_structure_tower_first(o) ==
  The({ IF ~o1.tower.null
        THEN IF ~o1.substructure.null
             THEN Ret([o1 EXCEPT !.full_structure =
                         DF(o1.tower.rows \o o1.substructure.rows)], Null)
             ELSE Raise(o1, "TypeError: Substructure needs to be processed before!")
        ELSE Raise(o1, "TypeError: Tower needs to be processed before!")
        : o1 \in {[o EXCEPT !._init_spec_full = TRUE]} })

assembly_full_structure(o) ==
  The({ IF ~o1.substructure.null
        THEN IF ~o1.tower.null
             THEN Ret([o1 EXCEPT !.full_structure =
                         DF(o1.tower.rows \o o1.substructure.rows)], Null)
             ELSE Raise(o1, "TypeError: Tower needs to be processed before!")
        ELSE Raise(o1, "TypeError: Substructure needs to be processed before!")
        : o1 \in {[o EXCEPT !._init_spec_full = TRUE]} })

(***************************************************************************)
(* OWT.extend_dfs                                                          *)
(***************************************************************************)
Chars(name) ==
  CASE name = "pile_toe" -> <<"p","i","l","e","_","t","o","e">>
    [] name = "rna" -> <<"r","n","a">>
    [] name = "tower" -> <<"t","o","w","e","r">>
    [] name = "transition_piece" ->
         <<"t","r","a","n","s","i","t","i","o","n","_","p","i","e","c","e">>
    [] name = "monopile" -> <<"m","o","n","o","p","i","l","e">>
    [] name = "tw_lumped_mass" ->
         <<"t","w","_","l","u","m","p","e","d","_","m","a","s","s">>
    [] name = "tp_lumped_mass" ->
         <<"t","p","_","l","u","m","p","e","d","_","m","a","s","s">>
    [] name = "mp_lumped_mass" ->
         <<"m","p","_","l","u","m","p","e","d","_","m","a","s","s">>
    [] name = "tp_distributed_mass" ->
         <<"t","p","_","d","i","s","t","r","i","b","u","t","e","d","_","m","a","s","s">>
    [] name = "mp_distributed_mass" ->
         <<"m","p","_","d","i","s","t","r","i","b","u","t","e","d","_","m","a","s","s">>
    [] name = "grout" -> <<"g","r","o","u","t">>
    [] name = "tw_" -> <<"t","w","_">>
    [] name = "tp_" -> <<"t","p","_">>
    [] name = "mp_" -> <<"m","p","_">>
    [] name = "transition" -> <<"t","r","a","n","s","i","t","i","o","n">>

(* sub in name, for Python strings *)
SubStr(sub, name) ==
  LET a == Chars(sub)
      b == Chars(name)
  IN \E i \in 0..(Len(b) - Len(a)) : \A j \in 1..Len(a) : b[i + j] = a[j]

(* the tag read from the two-letter prefix alone *)
TagOfPrefix(attr) ==
  IF SubStr("tw_", attr) THEN "TW"
  ELSE IF SubStr("tp_", attr) THEN "TP"
  ELSE IF SubStr("mp_", attr) THEN "MP"
  ELSE ""

TagOf(attr) ==
  IF SubStr("tower", attr) \/ SubStr("tw_", attr) \/ SubStr("rna", attr) THEN "TW"
  ELSE IF SubStr("tp_", attr) \/ SubStr("transition", attr) \/ SubStr("grout", attr) THEN "TP"
  ELSE IF SubStr("mp_", attr) \/ SubStr("monopile", attr) THEN "MP"
  ELSE ""

Tagged(df, tag) == DF(MapSeq(df.rows, LAMBDA r : [r EXCEPT !.Subassembly = tag]))

RECURSIVE TagAll(_, _)
TagAll(o, attrs) ==
  IF Len(attrs) = 0 THEN o
  ELSE LET attr == attrs[1]
       IN The({ TagAll(o1, Tail(attrs))
                : o1 \in { IF ~o[attr].null /\ TagOf(attr) # ""
                           THEN [o EXCEPT ![attr] = Tagged(o[attr], TagOf(attr))]
                           ELSE o } })

(* the joint step of extend_dfs; the result also lists the methods called *)
extend_dfs_joint(o1) ==
  IF "TP" \in DOMAIN o1.sub_assemblies /\ "MP" \in DOMAIN o1.sub_assemblies
  THEN The({ r @@ [calls |-> <<"assembly_tp_mp">>] : r \in {assembly_tp_mp(o1)} })
  ELSE Ret([o1 EXCEPT !._init_spec_part = TRUE, !.tp_skirt = Null], Null)
       @@ [calls |-> <<>>]

(* assembly_full_structure is called whenever there is a tower subassembly *)
extend_dfs_full_always(o2, calls) ==
  IF "TW" \in DOMAIN o2.sub_assemblies
  THEN The({ assembly_full_structure(o3)
             @@ [calls |-> calls \o <<"assembly_full_structure">>]
             : o3 \in {[o2 EXCEPT !._init_spec_full = TRUE]} })
  ELSE Ret([o2 EXCEPT !.full_structure = Null, !._init_spec_full = TRUE], Null)
       @@ [calls |-> calls]

(* the full-structure step of extend_dfs *)
extend_dfs_full(o2, calls) ==
  IF "TW" \in DOMAIN o2.sub_assemblies
  THEN The({ IF ~o3.substructure.null
             THEN assembly_full_structure(o3)
                  @@ [calls |-> calls \o <<"assembly_full_structure">>]
             ELSE Ret([o3 EXCEPT !.full_structure = Null], Null) @@ [calls |-> calls]
             : o3 \in {[o2 EXCEPT !._init_spec_full = TRUE]} })
  ELSE Ret([o2 EXCEPT !.full_structure = Null, !._init_spec_full = TRUE], Null)
       @@ [calls |-> calls]

extend_dfs(o) ==
  The({ The({ IF part.err # NoError THEN part ELSE extend_dfs_full(part.o, part.calls)
              : part \in {extend_dfs_joint(o1)} })
        : o1 \in {TagAll(o, ATTR_PROC)} })

(***************************************************************************)
(* OWT.transform_monopile_geometry                                         *)
(* The returned table has a row for every row of mp_sub_assemblies but the *)
(* first: elevations (m below the mudline) and wall thickness are fields   *)
(* that may be NaN, the diameter is the mean of the two outer diameters in *)
(* mm, the submerged unit weight is 1e-2 * density - 10.  The three        *)
(* columns copied from the material are left out.                          *)
(***************************************************************************)
PileRow(df, i, penetration, material) ==
  [ elev_from |-> Val(penetration - df[i - 1].z \div MmPerM),
    elev_to |-> Val(penetration - df[i].z \div MmPerM),
    unit_weight |-> Val(material.density.v \div 100 - 10),
    wall_thickness |-> df[i].wall_thickness,
    Diameter |-> Val((df[i].OD[1] + df[i].OD[Len(df[i].OD)]) \div 2) ]

(* pile.loc[0, "Elevation from [m]"] = cutoff_point on a table without a   *)
(* row 0 adds the row, with the other columns missing                      *)
EnlargedRow(cutoff_point) ==
  [ elev_from |-> cutoff_point, elev_to |-> NaN, unit_weight |-> NaN,
    wall_thickness |-> NaN, Diameter |-> NaN ]

cut_pile(o, pile, cutoff_point) ==
  IF cutoff_point.st = "nan" THEN Ret(o, DF(pile))
  ELSE IF pile = <<>> THEN Raise(o, "KeyError: Elevation to [m]")
  ELSE The({ IF kept = <<>> THEN Ret(o, DF(<<EnlargedRow(cutoff_point)>>))
             ELSE Ret(o, DF(<<[kept[1] EXCEPT !.elev_from = cutoff_point]>> \o Tail(kept)))
           : kept \in {SelectSeq(pile, LAMBDA r : r.elev_to.v > cutoff_point.v)} })

transform_monopile_geometry(o, cutoff_point) ==
  IF "MP" \notin DOMAIN o.sub_assemblies THEN Raise(o, "KeyError: MP")
  ELSE IF o.mp_sub_assemblies.null
  THEN Raise(o, "ValueError: Monopile subassembly data not found.")
  ELSE The({
       IF Len(df) <= 1 THEN cut_pile(o, <<>>, cutoff_point)
       ELSE IF ~Truthy(o.sub_assemblies["MP"].bb[1].density) THEN Raise(o, "AttributeError")
       ELSE IF \E i \in 2..Len(df) : df[i].OD = <<>>
       THEN Raise(o, "ValueError: could not convert string to float")
       ELSE cut_pile(o,
                     [i \in 1..(Len(df) - 1) |->
                        PileRow(df, i + 1, penetration, o.sub_assemblies["MP"].bb[1])] \o <<>>,
                     cutoff_point)
     : df \in {o.mp_sub_assemblies.rows},
       penetration \in {o.water_depth - o.sub_assemblies["MP"].position_z \div MmPerM} })

(***************************************************************************)
(* OWT.__getattribute__                                                    *)
(***************************************************************************)
(* a read that never warns *)
getattribute_silent(o, name) ==
  [o |-> o, err |-> NoError, val |-> o[name], warn |-> ""]

getattribute(o, name) ==
  [ o |-> o, err |-> NoError, val |-> o[name],
    warn |-> IF InList(name, ATTR_PROC) /\ ~o._init_proc THEN "process_structure()"
             ELSE IF InList(name, ATTR_SPEC) /\ ~o._init_spec_part THEN "assembly_tp_mp()"
             ELSE IF InList(name, ATTR_SPEC) /\ ~o._init_spec_full
                  THEN "assembly_full_structure()"
             ELSE "" ]

(***************************************************************************)
(* OWTs: the fleet                                                         *)
(* Before process_structures has finished, an accumulator is the list      *)
(* [list |-> s] of the values appended so far.                             *)
(***************************************************************************)
List(s) == [list |-> s]

LastIndex(ks, k, n) ==
  LET idx == {i \in 1..n : ks[i] = k}
  IN CHOOSE i \in idx : \A j \in idx : j <= i

RECURSIVE Flatten(_)
Flatten(frames) ==
  IF Len(frames) = 0 THEN <<>>
  ELSE (IF frames[1].null THEN <<>> ELSE frames[1].rows) \o Flatten(Tail(frames))

(* None for no frame at all, else pd.concat, which skips None *)
concat_or_none(frames) ==
  IF \A i \in 1..Len(frames) : frames[i].null THEN Null ELSE DF(Flatten(frames))

(* the attributes OWTs.__init__ assigns, from the dict owts, its keys and *)
(* its values                                                           *)
OWTs_fields(turbines, keys, owts, values) ==
  LET m == Len(values)
      fan_out(attr) ==
        [k \in {turbines[i] : i \in 1..m} |-> values[LastIndex(turbines, k, m)][attr]]
      members(attr) == concat_or_none(MapSeq(values, LAMBDA o : o[attr]))
  IN [ exists |-> TRUE,
       owts |-> owts,
       owts_keys |-> keys,
       sub_assemblies |-> fan_out("sub_assemblies"),
       tower_base |-> fan_out("tower_base"),
       pile_head |-> fan_out("pile_head"),
       water_depth |-> fan_out("water_depth"),
       tw_sub_assemblies |-> members("tw_sub_assemblies"),
       tp_sub_assemblies |-> members("tp_sub_assemblies"),
       mp_sub_assemblies |-> members("mp_sub_assemblies"),
       pile_toe |-> List(<<>>), rna |-> List(<<>>), tower |-> List(<<>>),
       transition_piece |-> List(<<>>), monopile |-> List(<<>>),
       tw_lumped_mass |-> List(<<>>), tp_lumped_mass |-> List(<<>>),
       mp_lumped_mass |-> List(<<>>), tp_distributed_mass |-> List(<<>>),
       mp_distributed_mass |-> List(<<>>), grout |-> List(<<>>),
       full_structure |-> List(<<>>), tp_skirt |-> List(<<>>),
       substructure |-> List(<<>>),
       all_tubular_structures |-> List(<<>>), all_distributed_mass |-> List(<<>>),
       all_lumped_mass |-> List(<<>>), all_turbines |-> List(<<>>),
       _init |-> FALSE ]

OWTs_init(turbines, owt_list) ==
  LET n == IF Len(turbines) < Len(owt_list) THEN Len(turbines) ELSE Len(owt_list)
  IN The({ The({ The({ OWTs_fields(turbines, keys, owts, values)
       : values \in {MapSeq(keys, LAMBDA k : owts[k])} })
       : owts \in {[k \in Range(keys) |-> owt_list[LastIndex(turbines, k, n)]] @@ <<>>} })
       : keys \in {dict_keys(SubSeq(turbines, 1, n))} })

(* select_owt(turbine): turbine is an int (list(self.owts.keys())[turbine], *)
(* negative indices counting from the end), a str (self.owts[turbine]) or   *)
(* a value of another type                                                  *)
select_owt(f, turbine) ==
  IF turbine.t = "int"
  THEN The({ IF turbine.v >= n \/ turbine.v < -n THEN Raise(f, "IndexError")
             ELSE Ret(f, f.owts[f.owts_keys[IF turbine.v >= 0 THEN turbine.v + 1
                                            ELSE n + turbine.v + 1]])
           : n \in {Len(f.owts_keys)} })
  ELSE IF turbine.t = "str"
  THEN IF turbine.v \in DOMAIN f.owts THEN Ret(f, f.owts[turbine.v])
       ELSE Raise(f, "KeyError")
  ELSE Raise(f, "ValueError: You must specify a single turbine title or its index.")

(* ATTR_PROC + ATTR_SPEC + ATTR_FULL without "all_turbines" *)
attr_list ==
  SelectSeq(ATTR_PROC \o ATTR_SPEC \o ATTR_FULL, LAMBDA a : a # "all_turbines")

(* the values one turbine adds to the accumulator attr *)
Collected(o, attr) ==
  IF attr = "all_tubular_structures" THEN <<o.tower, o.transition_piece, o.monopile>>
  ELSE IF attr = "all_distributed_mass"
  THEN <<o.tp_distributed_mass, o.grout, o.mp_distributed_mass>>
  ELSE IF attr = "all_lumped_mass"
  THEN <<o.rna, o.tw_lumped_mass, o.tp_lumped_mass, o.mp_lumped_mass>>
  ELSE <<o[attr]>>

RECURSIVE Accumulate(_, _, _)
Accumulate(f, o, attrs) ==
  IF Len(attrs) = 0 THEN f
  ELSE Accumulate([f EXCEPT ![attrs[1]] = List(@.list \o Collected(o, attrs[1]))],
                  o, Tail(attrs))

(* process_structure(option=sa) for every key sa of sub_assemblies, in order; *)
(* the result lists the calls made                                           *)
RECURSIVE process_each(_, _, _)
process_each(o, options, calls) ==
  IF Len(options) = 0 THEN Ret(o, Null) @@ [calls |-> calls]
  ELSE LET c == Append(calls, <<"process_structure", options[1]>>)
       IN The({ IF r.err # NoError THEN r @@ [calls |-> c]
                ELSE process_each(r.o, Tail(options), c)
                : r \in {process_structure(o, options[1])} })

(* every turbine is processed with option "full" *)
process_turbine_full(o) ==
  The({ IF p.err # NoError THEN p
        ELSE The({ [ o |-> e.o, err |-> e.err, val |-> Null,
                     calls |-> Append(p.calls, <<"extend_dfs", "">>) ]
                   : e \in {extend_dfs(p.o)} })
        : p \in {process_each(o, <<"full">>, <<>>)} })

(* the body of the loop of process_structures up to extend_dfs *)
process_turbine(o) ==
  The({ IF p.err # NoError THEN p
        ELSE The({ [ o |-> e.o, err |-> e.err, val |-> Null,
                     calls |-> Append(p.calls, <<"extend_dfs", "">>) ]
                   : e \in {extend_dfs(p.o)} })
        : p \in { IF Cardinality(DOMAIN o.sub_assemblies) # 3
                  THEN process_each(o, o.sub_assemblies_keys, <<>>)
                  ELSE process_each(o, <<"full">>, <<>>) } })

(* the error of a turbine is dropped and the loop goes on *)
RECURSIVE process_loop_tolerant(_, _, _)
process_loop_tolerant(f, keys, calls) ==
  IF Len(keys) = 0 THEN Ret(f, Null) @@ [calls |-> calls]
  ELSE LET k == keys[1]
       IN The({ The({
            The({ process_loop_tolerant(f2, Tail(keys), c)
                  : f2 \in {Accumulate(f1, r.o, attr_list)} })
            : f1 \in {[f EXCEPT !.owts[k] = r.o]},
              c \in {calls \o MapSeq(r.calls, LAMBDA x : <<k>> \o x)} })
            : r \in {process_turbine(f.owts[k])} })

RECURSIVE process_loop(_, _, _)
process_loop(f, keys, calls) ==
  IF Len(keys) = 0 THEN Ret(f, Null) @@ [calls |-> calls]
  ELSE LET k == keys[1]
       IN The({ The({
            IF r.err # NoError THEN Raise(f1, r.err) @@ [calls |-> c]
            ELSE The({ process_loop(f2, Tail(keys), c)
                       : f2 \in {Accumulate(f1, r.o, attr_list)} })
            : f1 \in {[f EXCEPT !.owts[k] = r.o]},
              c \in {calls \o MapSeq(r.calls, LAMBDA x : <<k>> \o x)} })
            : r \in {process_turbine(f.owts[k])} })

RECURSIVE concat_list(_, _)
concat_list(f, attrs) ==
  IF Len(attrs) = 0 THEN f
  ELSE concat_list([f EXCEPT ![attrs[1]] = concat_or_none(@.list)], Tail(attrs))

ColumnSum(df, col) == IF df.null THEN Null ELSE Some(SumOf(df.rows, LAMBDA r : r[col]))

MassSum(frames) == SumOf(frames, LAMBDA df : SumOf(df.rows, LAMBDA r : r.Mass))

assembly_turbine(f) ==
  [f EXCEPT !.all_turbines =
     DF(MapSeq(f.owts_keys, LAMBDA turb :
       The({
          [ name |-> turb,
            water_depth |-> f.water_depth[turb],
            pile_toe |-> f.pile_toe[turb],
            pile_head |-> f.pile_head[turb],
            tower_base |-> f.tower_base[turb],
            monopile_height |-> ColumnSum(o.monopile, "Height"),
            monopile_mass |->
              IF o.monopile.null THEN Null
              ELSE Some(MassSum(<<o.monopile, o.mp_distributed_mass, o.mp_lumped_mass>>)),
            transition_piece_height |-> ColumnSum(o.transition_piece, "Height"),
            transition_piece_mass |->
              IF o.transition_piece.null THEN Null
              ELSE Some(MassSum(<<o.transition_piece, o.tp_distributed_mass,
                                  o.tp_lumped_mass, o.grout>>)),
            tower_height |-> ColumnSum(o.tower, "Height"),
            tower_mass |->
              IF o.tower.null THEN Null
              ELSE Some(MassSum(<<o.tower, o.tw_lumped_mass>>)),
            rna_mass |-> ColumnSum(o.rna, "Mass") ]
          : o \in {f.owts[turb]} })))]

(* process_structures past its guard *)
process_all(f) ==
  The({ IF r.err # NoError THEN r
        ELSE The({ Ret(assembly_turbine(f2), Null) @@ [calls |-> r.calls]
                   : f2 \in { concat_list(
                                [r.o EXCEPT !.pile_toe =
                                   [k \in Range(r.o.owts_keys) |->
                                      r.o.pile_toe.list[LastIndex(r.o.owts_keys, k,
                                                                  Len(r.o.owts_keys))]]],
                                SelectSeq(attr_list, LAMBDA a : a # "pile_toe")) } })
        : r \in {process_loop([f EXCEPT !._init = TRUE], f.owts_keys, <<>>)} })

(* without the guard a second call processes the first turbine again and *)
(* then fails to append to the finished pile_toe                         *)
process_structures_unguarded(f) ==
  IF f._init
  THEN LET k == f.owts_keys[1]
       IN The({ Raise([f EXCEPT !.owts[k] = r.o],
                      IF r.err # NoError THEN r.err ELSE "AttributeError")
                @@ [calls |-> MapSeq(r.calls, LAMBDA x : <<k>> \o x)]
                : r \in {process_turbine(f.owts[k])} })
  ELSE process_all(f)

process_structures(f) ==
  IF f._init THEN Ret(f, Null) @@ [calls |-> <<>>] ELSE process_all(f)

(***************************************************************************)
(* Inputs: the database records of one turbine.                            *)
(* A design is [sas, nTP, overlap]: the subassemblies present, the number  *)
(* of cans of the transition piece (each conical, 6 m to 4 m), and how far *)
(* (m) the pile head stands above the bottom of the transition piece (0 is *)
(* a bolted joint).  The monopile has two cylindrical cans.                *)
(***************************************************************************)
TowerBaseMm == 10 * MmPerM
TPCanMm == 2 * MmPerM
MPCanMm == 3 * MmPerM
SteelDensity == 8 * MmPerM

Can(tokens, z, h, d_bottom, d_top) ==
  [ title |-> tokens, z_position |-> z, height |-> Val(h),
    bottom_outer_diameter |-> Val(d_bottom), top_outer_diameter |-> Val(d_top),
    wall_thickness |-> Val(MmPerM), mass |-> NaN, mass_distribution |-> NaN,
    volume_distribution |-> NaN, density |-> Val(SteelDensity) ]

LumpedMass(tokens, z, m) ==
  [ title |-> tokens, z_position |-> z, height |-> NaN,
    bottom_outer_diameter |-> NaN, top_outer_diameter |-> NaN,
    wall_thickness |-> NaN, mass |-> Val(m), mass_distribution |-> NaN,
    volume_distribution |-> NaN, density |-> NaN ]

DistributedMass(tokens, z, h, md) ==
  [ title |-> tokens, z_position |-> z, height |-> Val(h),
    bottom_outer_diameter |-> NaN, top_outer_diameter |-> NaN,
    wall_thickness |-> NaN, mass |-> NaN, mass_distribution |-> Val(md),
    volume_distribution |-> Val(MmPerM), density |-> NaN ]

CanName(k) == IF k = 1 THEN "can1" ELSE IF k = 2 THEN "can2" ELSE IF k = 3 THEN "can3" ELSE "can4"

TowerBlocks ==
  << Can(<<"tw", "can1">>, 0, 4 * MmPerM, 4 * MmPerM, 4 * MmPerM),
     LumpedMass(<<"TW", "flange">>, 1 * MmPerM, 5 * MmPerM),
     LumpedMass(<<"RNA">>, 4 * MmPerM, 100 * MmPerM) >>

TPBlocks(d) ==
  [k \in 1..d.nTP |->
     Can(<<"tp", CanName(k)>>, (k - 1) * TPCanMm, TPCanMm, 6 * MmPerM, 4 * MmPerM)]
  \o << LumpedMass(<<"TP", "platform">>, 1 * MmPerM, 7 * MmPerM),
        DistributedMass(<<"TP", "ladder">>, 3 * MmPerM, MmPerM, 2 * MmPerM),
        DistributedMass(<<"tp", "grout">>, 5 * MmPerM, MmPerM, 3 * MmPerM) >>

MPBlocks(d) ==
  << Can(<<"mp", "can1">>, 0, MPCanMm, 6 * MmPerM, 6 * MmPerM),
     Can(<<"mp", "can2">>, MPCanMm, MPCanMm, 6 * MmPerM, 6 * MmPerM) >>
  \o << LumpedMass(<<"MP", "anode">>, 1 * MmPerM, 2 * MmPerM),
        DistributedMass(<<"MP", "coating">>, 2 * MmPerM, MmPerM, MmPerM) >>

TPBottomMm(d) == TowerBaseMm - d.nTP * TPCanMm
PileHeadMm(d) == TPBottomMm(d) + d.overlap * MmPerM

SubAssemblyRecord(k, d) ==
  [ subassembly_type |-> k,
    position_z |-> IF k = "TW" THEN TowerBaseMm
                   ELSE IF k = "TP" THEN TPBottomMm(d)
                   ELSE PileHeadMm(d) - 2 * MPCanMm,
    bb |-> IF k = "TW" THEN TowerBlocks
           ELSE IF k = "TP" THEN TPBlocks(d) ELSE MPBlocks(d) ]

Subassemblies(d) ==
  SelectSeq(<<"TW", "TP", "MP">>, LAMBDA k : k \in d.sas)

SubassemblyTable(d) == MapSeq(Subassemblies(d), LAMBDA k : SubAssemblyRecord(k, d))

(* the cans of an absent transition piece and the joint of an absent *)
(* monopile or transition piece are not varied                       *)
Designs ==
  { d \in [ sas : SUBSET Kinds, nTP : 1..MaxCans, overlap : 0..MaxOverlap ] :
      /\ "TP" \notin d.sas => d.nTP = 1 /\ d.overlap = 0
      /\ "MP" \notin d.sas => d.overlap = 0 }

(* the designs of the lifecycle specification: a one-can transition piece, *)
(* bolted (overlap 0) or grouted (overlap 1) to the monopile                *)
LifecycleDesigns == { d \in Designs : d.nTP = 1 /\ d.overlap <= 1 }

(* the designs of the joint specification: every joint geometry *)
JointDesigns == { d \in Designs : {"TP", "MP"} \subseteq d.sas }

(* a turbine built from the records of a design, in 30 m of water, with *)
(* neither tower_base nor pile_head given                               *)
NewOWT(d) == The({ OWT_init(t, 30, Null, Null) : t \in {SubassemblyTable(d)} })

(***************************************************************************)
(* Specification of one turbine: the methods of an OWT, called in any      *)
(* order.  last records the call just made: its name and argument, the     *)
(* exception and warning it raised, the value it returned, the assembly    *)
(* methods it called, and the turbine before the call.                     *)
(***************************************************************************)
Options == {"full", "TW", "TP", "MP"}

NoFleet == [exists |-> FALSE]
NoBB == [exists |-> FALSE]
NoSA == [exists |-> FALSE]
NoAPI == [exists |-> FALSE]

Called(op, arg, pre, r, warn, calls) ==
  [ op |-> op, arg |-> arg, pre |-> pre, err |-> r.err, val |-> r.val,
    warn |-> warn, calls |-> calls ]

Init ==
  /\ \E d \in LifecycleDesigns : owt = NewOWT(d)
  /\ last = [ op |-> "init", arg |-> "", pre |-> Null, err |-> NoError, val |-> Null,
              warn |-> "", calls |-> <<>> ]
  /\ fleet = NoFleet
  /\ bb = NoBB
  /\ subassembly = NoSA
  /\ api = NoAPI

ProcessStructure ==
  \E option \in Options :
    \E r \in {process_structure(owt, option)} :
       /\ owt' = r.o
       /\ last' = Called("process_structure", option, owt, r, "", <<>>)
       /\ UNCHANGED <<fleet, bb, subassembly, api>>

AssemblyTpMp ==
  \E r \in {assembly_tp_mp(owt)} :
     /\ owt' = r.o
     /\ last' = Called("assembly_tp_mp", "", owt, r, "", <<>>)
     /\ UNCHANGED <<fleet, bb, subassembly, api>>

AssemblyFullStructure ==
  \E r \in {assembly_full_structure(owt)} :
     /\ owt' = r.o
     /\ last' = Called("assembly_full_structure", "", owt, r, "", <<>>)
     /\ UNCHANGED <<fleet, bb, subassembly, api>>

ExtendDfs ==
  \E r \in {extend_dfs(owt)} :
     /\ owt' = r.o
     /\ last' = Called("extend_dfs", "", owt, r, "", r.calls)
     /\ UNCHANGED <<fleet, bb, subassembly, api>>

ReadAttribute ==
  \E name \in Range(ATTR_PROC) \cup Range(ATTR_SPEC) :
    \E r \in {getattribute(owt, name)} :
       /\ owt' = r.o
       /\ last' = Called("getattribute", name, owt, r, r.warn, <<>>)
       /\ UNCHANGED <<fleet, bb, subassembly, api>>

Next ==
  \/ ProcessStructure
  \/ AssemblyTpMp
  \/ AssemblyFullStructure
  \/ ExtendDfs
  \/ ReadAttribute

Spec == Init /\ [][Next]_vars

(***************************************************************************)
(* Specification of the joint: every geometry of transition piece and pile *)
(* head, processed and assembled.                                          *)
(***************************************************************************)
InitJoint ==
  /\ \E d \in JointDesigns : owt = NewOWT(d)
  /\ last = [ op |-> "init", arg |-> "", pre |-> Null, err |-> NoError, val |-> Null,
              warn |-> "", calls |-> <<>> ]
  /\ fleet = NoFleet
  /\ bb = NoBB
  /\ subassembly = NoSA
  /\ api = NoAPI

NextJoint ==
  \/ ProcessStructure
  \/ AssemblyTpMp
  \/ ExtendDfs

SpecJoint == InitJoint /\ [][NextJoint]_vars

(***************************************************************************)
(* Specification of the fleet: an OWTs built from one to MaxTurbines       *)
(* turbines, and process_structures called any number of times.            *)
(***************************************************************************)
Title(i) == IF i = 1 THEN "T01" ELSE IF i = 2 THEN "T02" ELSE IF i = 3 THEN "T03" ELSE "T04"

InitFleet ==
  /\ \E n \in 1..MaxTurbines :
       \E ds \in [1..n -> LifecycleDesigns] :
         \E owt_list \in {MapSeq(ds, NewOWT)} :
           fleet = OWTs_init([i \in 1..n |-> Title(i)], owt_list)
  /\ last = [ op |-> "init", arg |-> "", pre |-> Null, err |-> NoError, val |-> Null,
              warn |-> "", calls |-> <<>> ]
  /\ owt = Null
  /\ bb = NoBB
  /\ subassembly = NoSA
  /\ api = NoAPI

ProcessStructures ==
  \E r \in {process_structures(fleet)} :
     /\ fleet' = r.o
     /\ last' = Called("process_structures", "", fleet, r, "", r.calls)
     /\ UNCHANGED <<owt, bb, subassembly, api>>

NextFleet == ProcessStructures

SpecFleet == InitFleet /\ [][NextFleet]_vars

(***************************************************************************)
(* Specification of one subassembly and its API: the properties of the     *)
(* subassembly read in any order, while the records of the database may    *)
(* change between two reads.  The subassembly is built with or without an  *)
(* api_object, and self.bb is None.                                        *)
(***************************************************************************)
SABlocks ==
  << Can(<<"tw", "can1">>, 0, 4 * MmPerM, 4 * MmPerM, 4 * MmPerM),
     Can(<<"Grout", "can">>, 2 * MmPerM, 2 * MmPerM, 6 * MmPerM, 4 * MmPerM),
     LumpedMass(<<"TW", "flange">>, 1 * MmPerM, 5 * MmPerM) >>

RECURSIVE Pick(_, _)
Pick(S, i) ==
  IF i > Len(SABlocks) THEN <<>>
  ELSE IF i \in S THEN <<SABlocks[i]>> \o Pick(S, i + 1) ELSE Pick(S, i + 1)

(* the databases: up to MaxBlocks of the records above *)
Databases == { Pick(S, 1) : S \in { T \in SUBSET (1..Len(SABlocks)) : Cardinality(T) <= MaxBlocks } }

InitSA ==
  /\ \E a \in {"none", "api"} :
       subassembly = [ id |-> 1, position_z |-> TowerBaseMm, api |-> a, bb |-> Null ]
  /\ \E db \in Databases : api = [ db |-> db, calls |-> 0 ]
  /\ last = [ op |-> "init", arg |-> "", pre |-> Null, err |-> NoError, val |-> Null,
              warn |-> "", calls |-> <<>> ]
  /\ owt = Null
  /\ fleet = NoFleet
  /\ bb = NoBB

ReadOf(op, r) ==
  /\ api.calls < MaxFetches
  /\ subassembly' = r.sa
  /\ api' = r.api
  /\ last' = Called(op, "", [sa |-> subassembly, api |-> api], r, "", r.reads)
  /\ UNCHANGED <<owt, fleet, bb>>

ReadBuildingBlocks == \E r \in {building_blocks(Reading(subassembly, api))} : ReadOf("building_blocks", r)

ReadHeight == \E r \in {SubAssembly_height(Reading(subassembly, api))} : ReadOf("height", r)

ReadMass == \E r \in {SubAssembly_mass(Reading(subassembly, api))} : ReadOf("mass", r)

ReadOutline == \E r \in {SubAssembly_outline(Reading(subassembly, api))} : ReadOf("outline", r)

ReadAsDf == \E r \in {SubAssembly_as_df(Reading(subassembly, api))} : ReadOf("as_df", r)

ReadAbsoluteBottom ==
  \E r \in {SubAssembly_absolute_bottom(Reading(subassembly, api))} : ReadOf("absolute_bottom", r)

ReadAbsoluteTop ==
  \E r \in {SubAssembly_absolute_top(Reading(subassembly, api))} : ReadOf("absolute_top", r)

(* the records of the subassembly change in the database *)
UpdateDatabase ==
  /\ \E db \in Databases \ {api.db} : api' = [api EXCEPT !.db = db]
  /\ UNCHANGED <<owt, last, fleet, bb, subassembly>>

NextSA ==
  \/ ReadBuildingBlocks
  \/ ReadHeight
  \/ ReadMass
  \/ ReadOutline
  \/ ReadAsDf
  \/ ReadAbsoluteBottom
  \/ ReadAbsoluteTop
  \/ UpdateDatabase

SpecSA == InitSA /\ [][NextSA]_vars

(***************************************************************************)
(* Specification of the classification of a building block: a raw record   *)
(* whose three deciding fields are each absent, None, NaN or a number, and *)
(* the property type read from it.                                         *)
(***************************************************************************)
FieldStates == {Absent, None, NaN, Val(0), Val(1)}

InitBB ==
  /\ \E d \in FieldStates, m \in FieldStates, md \in FieldStates :
       bb = [ exists |-> TRUE,
              json |-> [bottom_outer_diameter |-> d, mass |-> m, mass_distribution |-> md],
              read |-> FALSE,
              result |-> [err |-> NoError, val |-> "none"] ]
  /\ last = [ op |-> "init", arg |-> "", pre |-> Null, err |-> NoError, val |-> Null,
              warn |-> "", calls |-> <<>> ]
  /\ owt = Null
  /\ fleet = NoFleet
  /\ subassembly = NoSA
  /\ api = NoAPI

ReadType ==
  /\ bb' = [bb EXCEPT !.read = TRUE, !.result = type(bb.json)]
  /\ UNCHANGED <<owt, last, fleet, subassembly, api>>

NextBB == ReadType

SpecBB == InitBB /\ [][NextBB]_vars

(***************************************************************************)
(* Specification of the volume of a tubular section: a raw record with a   *)
(* bottom diameter, and a height, a wall thickness and a top diameter that *)
(* may be missing, and the property volume read from it.  The database     *)
(* does not constrain the wall thickness by the diameter.                  *)
(***************************************************************************)
Metres(S) == { Val(n * MmPerM) : n \in S }

InitVolume ==
  /\ \E h \in {None, NaN} \cup Metres(0..MaxHeight),
        wt \in {NaN} \cup Metres(0..MaxWall),
        d_bottom \in Metres(1..MaxDiameter),
        d_top \in {NaN} \cup Metres(1..MaxDiameter) :
       bb = [ exists |-> TRUE,
              json |-> [ title |-> <<"can">>, z_position |-> 0, height |-> h,
                         bottom_outer_diameter |-> d_bottom, top_outer_diameter |-> d_top,
                         wall_thickness |-> wt, mass |-> NaN, mass_distribution |-> NaN,
                         volume_distribution |-> NaN, density |-> Val(SteelDensity) ],
              read |-> FALSE,
              result |-> [err |-> NoError, val |-> None] ]
  /\ last = [ op |-> "init", arg |-> "", pre |-> Null, err |-> NoError, val |-> Null,
              warn |-> "", calls |-> <<>> ]
  /\ owt = Null
  /\ fleet = NoFleet
  /\ subassembly = NoSA
  /\ api = NoAPI

ReadVolume ==
  /\ bb' = [bb EXCEPT !.read = TRUE, !.result = volume(bb.json)]
  /\ UNCHANGED <<owt, last, fleet, subassembly, api>>

NextVolume == ReadVolume

SpecVolume == InitVolume /\ [][NextVolume]_vars

(***************************************************************************)
(* Specification of the elevations: a turbine built with or without        *)
(* tower_base and pile_head, on which set_df_structure and                 *)
(* process_structure are called in any order.                              *)
(***************************************************************************)
Indices == {"tw", "tp", "mp", "sa"}

(* tower_base and pile_head as given to the constructor: both left out, or *)
(* both given (12 and 7 mLAT)                                              *)
Anchors == { <<Null, Null>>, <<Some(12), Some(7)>> }

InitElevation ==
  /\ \E d \in LifecycleDesigns, a \in Anchors :
       \E t \in {SubassemblyTable(d)} : owt = OWT_init(t, 30, a[1], a[2])
  /\ last = [ op |-> "init", arg |-> "", pre |-> Null, err |-> NoError, val |-> Null,
              warn |-> "", calls |-> <<>> ]
  /\ fleet = NoFleet
  /\ bb = NoBB
  /\ subassembly = NoSA
  /\ api = NoAPI

SetDfStructure ==
  \E idx \in Indices :
    \E r \in {set_df_structure(owt, idx)} :
       /\ owt' = r.o
       /\ last' = Called("set_df_structure", idx, owt, r, "", <<>>)
       /\ UNCHANGED <<fleet, bb, subassembly, api>>

NextElevation ==
  \/ SetDfStructure
  \/ ProcessStructure

SpecElevation == InitElevation /\ [][NextElevation]_vars

(***************************************************************************)
(* Specification of the fleet by title: an OWTs built from a list of one   *)
(* to MaxTitles titles, which may repeat, and as many turbines, and        *)
(* select_owt called on it.  owt holds the two lists the constructor was   *)
(* given.                                                                  *)
(***************************************************************************)
TitleSet == {Title(1), Title(2)}

(* a complete turbine bolted, a complete turbine grouted, a lone tower *)
FleetDesigns ==
  { d \in LifecycleDesigns : d.sas = Kinds \/ d.sas = {"TW"} }

Arguments == [t : {"int"}, v : -1..MaxTitles] \cup [t : {"str"}, v : TitleSet \cup {"T09"}]
             \cup [t : {"float"}, v : {0}]

InitTitles ==
  /\ \E n \in 1..MaxTitles :
       \E turbines \in [1..n -> TitleSet], ds \in [1..n -> FleetDesigns] :
         \E owt_list \in {MapSeq(ds, NewOWT)} :
           /\ fleet = OWTs_init(turbines, owt_list)
           /\ owt = [null |-> FALSE, turbines |-> turbines, owts |-> owt_list]
  /\ last = [ op |-> "init", arg |-> "", pre |-> Null, err |-> NoError, val |-> Null,
              warn |-> "", calls |-> <<>> ]
  /\ bb = NoBB
  /\ subassembly = NoSA
  /\ api = NoAPI

SelectOwt ==
  \E turbine \in Arguments :
    \E r \in {select_owt(fleet, turbine)} :
       /\ fleet' = r.o
       /\ last' = Called("select_owt", turbine, fleet, r, "", <<>>)
       /\ UNCHANGED <<owt, bb, subassembly, api>>

NextTitles == SelectOwt

SpecTitles == InitTitles /\ [][NextTitles]_vars

(***************************************************************************)
(* Specification of the documented options: process_structure called with  *)
(* the option values that its docstring lists.                             *)
(***************************************************************************)
DocumentedOptions == {"full", "tower", "TP", "monopile"}

ProcessStructureAsDocumented ==
  \E option \in DocumentedOptions :
    \E r \in {process_structure(owt, option)} :
       /\ owt' = r.o
       /\ last' = Called("process_structure", option, owt, r, "", <<>>)
       /\ UNCHANGED <<fleet, bb, subassembly, api>>

NextDocumented == ProcessStructureAsDocumented

SpecDocumented == Init /\ [][NextDocumented]_vars

(***************************************************************************)
(* Specification of the pile: a turbine with or without a tower and with   *)
(* or without a monopile of one to MaxPileCans cans, alone or with an      *)
(* anode above or between them, in 0 m of water; transform_monopile_       *)
(* geometry is called with any cutoff point, and mp_sub_assemblies may be  *)
(* set to None from outside.                                               *)
(***************************************************************************)
PileBlocks(n, anode) ==
  [k \in 1..n |-> Can(<<"mp", CanName(k)>>, (k - 1) * MPCanMm, MPCanMm, 6 * MmPerM, 6 * MmPerM)]
  \o (IF anode = "top" THEN <<LumpedMass(<<"MP", "anode">>, n * MPCanMm, 2 * MmPerM)>>
      ELSE IF anode = "between" THEN <<LumpedMass(<<"MP", "anode">>, 1 * MmPerM, 2 * MmPerM)>>
      ELSE <<>>)

PileTable(tower, n, anode) ==
  (IF tower THEN <<[ subassembly_type |-> "TW", position_z |-> TowerBaseMm, bb |-> TowerBlocks ]>>
   ELSE <<>>)
  \o (IF n > 0
      THEN <<[ subassembly_type |-> "MP", position_z |-> -(n * MPCanMm),
               bb |-> PileBlocks(n, anode) ]>>
      ELSE <<>>)

CutoffPoints == {NaN} \cup { Val(c) : c \in 0..MaxCutoff }

InitPile ==
  /\ \E tower \in BOOLEAN, n \in 0..MaxPileCans, anode \in {"none", "top", "between"} :
       /\ n = 0 => anode = "none"
       /\ \E t \in {PileTable(tower, n, anode)} : owt = OWT_init(t, 0, Null, Null)
  /\ last = [ op |-> "init", arg |-> "", pre |-> Null, err |-> NoError, val |-> Null,
              warn |-> "", calls |-> <<>> ]
  /\ fleet = NoFleet
  /\ bb = NoBB
  /\ subassembly = NoSA
  /\ api = NoAPI

TransformMonopileGeometry ==
  \E cutoff_point \in CutoffPoints :
    \E r \in {transform_monopile_geometry(owt, cutoff_point)} :
       /\ owt' = r.o
       /\ last' = Called("transform_monopile_geometry", cutoff_point, owt, r, "", <<>>)
       /\ UNCHANGED <<fleet, bb, subassembly, api>>

(* owt.mp_sub_assemblies = None *)
SetMpSubAssembliesNone ==
  /\ ~owt.mp_sub_assemblies.null
  /\ owt' = [owt EXCEPT !.mp_sub_assemblies = Null]
  /\ last' = Called("set_mp_sub_assemblies", "", owt, Ret(owt, Null), "", <<>>)
  /\ UNCHANGED <<fleet, bb, subassembly, api>>

NextPile ==
  \/ TransformMonopileGeometry
  \/ SetMpSubAssembliesNone

SpecPile == InitPile /\ [][NextPile]_vars

(***************************************************************************)
(* GeometryAPI.get_owt_geometry_processor                                  *)
(* The database a holds whether there are materials, the water depth at    *)
(* each location (None for a turbine without a location) and the           *)
(* subassembly table of each turbine.  An argument that is a scalar or a   *)
(* list is [t |-> "scalar" | "list", v |-> ...]; turbines is a "str" or a  *)
(* "list".  An error of the list errors is <<message, turbine>>.           *)
(***************************************************************************)
get_materials(a) == [exists |-> a.materials]

(* output_type "single": the location exists when one record came back *)
get_assetlocation_detail(a, turbine) ==
  [exists |-> ~a.locations[turbine].null, data |-> a.locations[turbine]]

(* output_type "list": the table exists when it has a row *)
get_subassemblies(a, turbine) ==
  [exists |-> Len(a.subassemblies[turbine]) # 0, data |-> a.subassemblies[turbine]]

(* a table is accepted whatever its types *)
check_nothing(subassemblies, turbine) == NoError

check_if_need_modeldef(subassemblies, turbine) ==
  IF Len(subassemblies)
       > Cardinality({subassemblies[i].subassembly_type : i \in DOMAIN subassemblies})
  THEN "ValueError: Multiple model definitions found for turbine"
  ELSE NoError

(* OWT(api, materials, subassemblies, location, tower_base, pile_head):    *)
(* _set_members reads as_df() of the TW, TP and MP subassemblies, which    *)
(* raises for a subassembly without building blocks                        *)
OWT_new(subassemblies, location, tower_base, pile_head) ==
  IF \E i \in DOMAIN subassemblies :
       /\ subassemblies[i].subassembly_type \in Kinds
       /\ subassemblies[i] = LastOfType(subassemblies, subassemblies[i].subassembly_type)
       /\ subassemblies[i].bb = <<>>
  THEN Raise(Null, "ValueError: No building blocks found")
  ELSE Ret(Null, OWT_init(subassemblies, location, tower_base, pile_head))

(* `x[i] if isinstance(x, list) else x` *)
ItemOf(x, i) == IF x.t = "list" THEN x.v[i] ELSE x.v

(* the body of the try statement for the turbine at index i *)
build_owt(a, turbine, tower_base, monopile_head, i) ==
  The({ IF ~location_data.exists
        THEN Raise(Null, "ValueError: No location found for turbine")
        ELSE The({
             IF ~subassemblies_data.exists
             THEN Raise(Null, "ValueError: No subassemblies found for turbine")
             ELSE IF check_if_need_modeldef(subassemblies_data.data, turbine) # NoError
             THEN Raise(Null, check_if_need_modeldef(subassemblies_data.data, turbine))
             ELSE OWT_new(subassemblies_data.data, location_data.data.v,
                          ItemOf(tower_base, i), ItemOf(monopile_head, i))
           : subassemblies_data \in {get_subassemblies(a, turbine)} })
      : location_data \in {get_assetlocation_detail(a, turbine)} })

(* the loop over enumerate(turbines), from index i on *)
RECURSIVE build_owts(_, _, _, _, _, _)
build_owts(a, turbines, tower_base, monopile_head, i, acc) ==
  IF i > Len(turbines) THEN acc
  ELSE The({ build_owts(a, turbines, tower_base, monopile_head, i + 1,
                        IF r.err = NoError
                        THEN [acc EXCEPT !.owts = Append(@, r.val),
                                         !.successful_turbines = Append(@, turbines[i])]
                        ELSE [acc EXCEPT !.errors = Append(@, <<r.err, turbines[i]>>)])
           : r \in {build_owt(a, turbines[i], tower_base, monopile_head, i)} })

NoWarning == [successful |-> <<>>, errors |-> <<>>]

get_owt_geometry_processor(a, turbines, tower_base, monopile_head) ==
  IF ~get_materials(a).exists
  THEN Raise(a, "ValueError: No materials found in the database.")
       @@ [warn |-> NoWarning, errors |-> <<>>]
  ELSE The({ The({
         IF acc.errors # <<>> /\ acc.successful_turbines = <<>>
         THEN Raise(a, "ValueError") @@ [warn |-> NoWarning, errors |-> acc.errors]
         ELSE Ret(a, OWTs_init(acc.successful_turbines, acc.owts))
              @@ [ warn |-> IF acc.errors # <<>>
                            THEN [successful |-> acc.successful_turbines,
                                  errors |-> acc.errors]
                            ELSE NoWarning,
                   errors |-> acc.errors ]
         : acc \in { build_owts(a, ts,
                                IF tower_base.t # "list" /\ monopile_head.t # "list"
                                THEN [t |-> "list", v |-> [i \in 1..Len(ts) |-> tower_base.v]]
                                ELSE tower_base,
                                IF tower_base.t # "list" /\ monopile_head.t # "list"
                                THEN [t |-> "list", v |-> [i \in 1..Len(ts) |-> monopile_head.v]]
                                ELSE monopile_head,
                                1,
                                [owts |-> <<>>, successful_turbines |-> <<>>,
                                 errors |-> <<>>]) } })
       : ts \in { IF turbines.t = "str" THEN <<turbines.v>> ELSE turbines.v } })

(***************************************************************************)
(* Specification of the processor: a database with or without materials,   *)
(* holding for each of two turbines one of the records below, and          *)
(* get_owt_geometry_processor called on it with one title or a list of one *)
(* to MaxTitles titles, which may repeat, and with tower_base and          *)
(* monopile_head left out, given as one value or given as a list.  The     *)
(* call leaves the database as it is, and a behaviour holds one call.      *)
(***************************************************************************)
(* the records of a turbine: a complete turbine, a lone tower, a turbine   *)
(* without a location, without subassemblies, with two tower subassemblies *)
(* (two model definitions), or with a tower that has no building blocks    *)
TurbineRecords == {"complete", "tower", "no location", "no subassemblies",
                   "two towers", "no blocks"}

TowerRecord(z) == [ subassembly_type |-> "TW", position_z |-> z, bb |-> TowerBlocks ]

SubassembliesOf(kind) ==
  CASE kind = "complete" -> SubassemblyTable([sas |-> Kinds, nTP |-> 1, overlap |-> 1])
    [] kind = "tower" -> <<TowerRecord(TowerBaseMm)>>
    [] kind = "no location" -> <<TowerRecord(TowerBaseMm)>>
    [] kind = "no subassemblies" -> <<>>
    [] kind = "two towers" -> <<TowerRecord(TowerBaseMm), TowerRecord(TowerBaseMm + MmPerM)>>
    [] kind = "no blocks" ->
         <<[ subassembly_type |-> "TW", position_z |-> TowerBaseMm, bb |-> <<>> ]>>

(* the water depth differs from one location to the next *)
LocationOf(kind, turbine) ==
  IF kind = "no location" THEN Null ELSE IF turbine = Title(1) THEN Some(30) ELSE Some(25)

(* a request is one title or a list of titles *)
Request(titles, as_str) ==
  IF as_str THEN [t |-> "str", v |-> titles[1]] ELSE [t |-> "list", v |-> titles]

RequestedTitles == UNION { [1..n -> TitleSet] : n \in 1..MaxTitles }

Forms == {"left out", "value", "list"}

(* an elevation left out, given as one value, or given as a list with a *)
(* value for each of the n turbines of the request                      *)
Given(form, base, n) ==
  IF form = "left out" THEN [t |-> "scalar", v |-> Null]
  ELSE IF form = "value" THEN [t |-> "scalar", v |-> Some(base)]
  ELSE [t |-> "list", v |-> [i \in 1..n |-> Some(base + i)]]

InitProcessor ==
  /\ \E materials \in BOOLEAN, kinds \in [TitleSet -> TurbineRecords] :
       api = [ materials |-> materials,
               locations |-> [t \in TitleSet |-> LocationOf(kinds[t], t)],
               subassemblies |-> [t \in TitleSet |-> SubassembliesOf(kinds[t])] ]
  /\ last = [ op |-> "init", arg |-> "", pre |-> Null, err |-> NoError, val |-> Null,
              warn |-> "", calls |-> <<>> ]
  /\ owt = Null
  /\ fleet = NoFleet
  /\ bb = NoBB
  /\ subassembly = NoSA

GetOwtGeometryProcessor ==
  \E titles \in RequestedTitles, as_str \in BOOLEAN, tb \in Forms, mh \in Forms :
    /\ last.op = "init"
    /\ as_str => Len(titles) = 1
    /\ \E turbines \in {Request(titles, as_str)},
          tower_base \in {Given(tb, 10, Len(titles))},
          monopile_head \in {Given(mh, 5, Len(titles))} :
         \E r \in {get_owt_geometry_processor(api, turbines, tower_base, monopile_head)} :
            /\ fleet' = IF r.err = NoError THEN r.val ELSE fleet
            /\ last' = Called("get_owt_geometry_processor",
                              [turbines |-> turbines, tower_base |-> tower_base,
                               monopile_head |-> monopile_head],
                              api, r, r.warn, r.errors)
            /\ UNCHANGED <<owt, bb, subassembly, api>>

NextProcessor == GetOwtGeometryProcessor

SpecProcessor == InitProcessor /\ [][NextProcessor]_vars

(***************************************************************************)
(* Specification of the constructor: OWT(...) called on the records of a   *)
(* lifecycle design with tower_base and pile_head each left out, given as  *)
(* 0.0 or given as a positive elevation.  Before the call owt holds the    *)
(* arguments.                                                              *)
(***************************************************************************)
GivenTowerBase == {Null, Some(0), Some(12)}
GivenPileHead == {Null, Some(0), Some(7)}

InitConstructor ==
  /\ \E d \in LifecycleDesigns, tower_base \in GivenTowerBase, pile_head \in GivenPileHead :
       owt = [ null |-> FALSE, subassemblies |-> SubassemblyTable(d), location |-> 30,
               tower_base |-> tower_base, pile_head |-> pile_head ]
  /\ last = [ op |-> "init", arg |-> "", pre |-> Null, err |-> NoError, val |-> Null,
              warn |-> "", calls |-> <<>> ]
  /\ fleet = NoFleet
  /\ bb = NoBB
  /\ subassembly = NoSA
  /\ api = NoAPI

NewOwt ==
  /\ last.op = "init"
  /\ \E o \in {OWT_init(owt.subassemblies, owt.location, owt.tower_base, owt.pile_head)} :
       /\ owt' = o
       /\ last' = Called("OWT", "", owt, Ret(o, Null), "", <<>>)
  /\ UNCHANGED <<fleet, bb, subassembly, api>>

NextConstructor == NewOwt

SpecConstructor == InitConstructor /\ [][NextConstructor]_vars

(***************************************************************************)
(* Properties                                                              *)
(***************************************************************************)
(* a concatenated table, as opposed to None or a list still being filled *)
IsFrame(x) == "rows" \in DOMAIN x

FleetTables ==
  << "pile_toe", "rna", "tower", "transition_piece", "monopile", "tw_lumped_mass",
     "tp_lumped_mass", "mp_lumped_mass", "tp_distributed_mass", "mp_distributed_mass",
     "grout", "full_structure", "tp_skirt", "substructure", "all_tubular_structures",
     "all_distributed_mass", "all_lumped_mass", "all_turbines" >>

(* C1: a call of OWTs.process_structures made after an earlier call has    *)
(* returned invokes process_structure and extend_dfs on no turbine, leaves *)
(* _init true and leaves every fleet table, pile_toe and the all_* tables  *)
(* included, as the first call left it.                                    *)
C1_Idempotent ==
  (last.op = "process_structures" /\ last.pre._init)
    => /\ last.err = NoError
       /\ last.calls = <<>>
       /\ fleet._init
       /\ \A i \in DOMAIN FleetTables : fleet[FleetTables[i]] = last.pre[FleetTables[i]]
       /\ fleet.owts = last.pre.owts

C1_Witness ==
  /\ last.op = "process_structures"
  /\ last.pre._init
  /\ last.err = NoError
  /\ IsFrame(last.pre.all_turbines)
  /\ Len(last.pre.all_turbines.rows) > 1
  /\ IsFrame(fleet.all_tubular_structures)
  /\ Len(fleet.all_tubular_structures.rows) > 2

(* the derived tables each option of process_structure fills *)
TablesOf(option) ==
  CASE option = "TW" -> {"rna", "tower", "tw_lumped_mass"}
    [] option = "TP" -> {"transition_piece", "tp_lumped_mass", "tp_distributed_mass", "grout"}
    [] option = "MP" -> {"monopile", "mp_lumped_mass", "mp_distributed_mass"}
    [] option = "full" ->
         {"rna", "tower", "tw_lumped_mass", "transition_piece", "tp_lumped_mass",
          "tp_distributed_mass", "grout", "monopile", "mp_lumped_mass",
          "mp_distributed_mass"}

DerivedTables == TablesOf("full")

Fresh(o) == \E d \in LifecycleDesigns : o = NewOWT(d)

C3_EarlyReadWarns ==
  last.op = "getattribute"
    => /\ (InList(last.arg, ATTR_PROC) /\ ~last.pre._init_proc)
            => /\ last.err = NoError
               /\ last.warn = "process_structure()"
               /\ last.val = last.pre[last.arg]
               /\ owt = last.pre
       /\ (InList(last.arg, ATTR_SPEC) /\ ~last.pre._init_spec_part)
            => /\ last.err = NoError
               /\ last.warn = "assembly_tp_mp()"
               /\ last.val = last.pre[last.arg]
               /\ owt = last.pre

C3_Witness ==
  /\ last.op = "getattribute"
  /\ last.arg = "substructure"
  /\ ~last.pre._init_spec_part
  /\ last.pre._init_proc
  /\ last.warn = "assembly_tp_mp()"
  /\ last.val = Null

(* C4: assembly_full_structure raises the error naming Substructure when    *)
(* substructure is null, the error naming Tower when only tower is null,    *)
(* and assigns no full_structure in either case; with both present it sets  *)
(* full_structure to the tower rows followed by the substructure rows.      *)
C4_FullStructure ==
  last.op = "assembly_full_structure"
    => /\ last.pre.substructure.null
            => /\ last.err = "TypeError: Substructure needs to be processed before!"
               /\ owt.full_structure = last.pre.full_structure
       /\ (~last.pre.substructure.null /\ last.pre.tower.null)
            => /\ last.err = "TypeError: Tower needs to be processed before!"
               /\ owt.full_structure = last.pre.full_structure
       /\ (~last.pre.substructure.null /\ ~last.pre.tower.null)
            => /\ last.err = NoError
               /\ owt.full_structure
                    = DF(last.pre.tower.rows \o last.pre.substructure.rows)

C4_Witness ==
  /\ last.op = "assembly_full_structure"
  /\ last.err = NoError
  /\ ~last.pre.substructure.null /\ ~last.pre.tower.null
  /\ Len(owt.full_structure.rows) > Len(last.pre.tower.rows)

(* a transition-piece can starts above pile_head and ends below it *)
Straddles(o) ==
  /\ ~o.transition_piece.null /\ ~o.monopile.null /\ ~o.pile_head.null
  /\ \E i \in DOMAIN o.transition_piece.rows :
       /\ o.transition_piece.rows[i].elev_from > o.pile_head.v
       /\ o.transition_piece.rows[i].elev_to < o.pile_head.v

(* C5: with a transition-piece can straddling pile_head, assembly_tp_mp       *)
(* returns with a substructure whose last transition-piece row ends at       *)
(* pile_head and is followed by all monopile rows, and a tp_skirt whose      *)
(* first row starts at pile_head; no substructure row of the transition      *)
(* piece reaches below the joint and no skirt row above it.                  *)
C5_NonBoltedJoint ==
  (last.op = "assembly_tp_mp" /\ Straddles(last.pre))
    => /\ last.err = NoError
       /\ ~owt.substructure.null
       /\ ~owt.tp_skirt.null
       /\ LET head == last.pre.pile_head.v
              sub == owt.substructure.rows
              nmp == Len(last.pre.monopile.rows)
              ntp == Len(sub) - nmp
              skirt == owt.tp_skirt.rows
          IN /\ ntp >= 1
             /\ sub[ntp].elev_to = head
             /\ \E i \in DOMAIN last.pre.transition_piece.rows :
                  last.pre.transition_piece.rows[i].title = sub[ntp].title
             /\ SubSeq(sub, ntp + 1, Len(sub)) = last.pre.monopile.rows
             /\ \A i \in 1..ntp : sub[i].elev_to >= head
             /\ Len(skirt) >= 1
             /\ skirt[1].elev_from = head
             /\ \A i \in DOMAIN skirt : skirt[i].elev_from <= head

C5_Witness ==
  /\ last.op = "assembly_tp_mp"
  /\ Straddles(last.pre)
  /\ last.err = NoError
  /\ Len(last.pre.transition_piece.rows) > 1
  /\ Len(owt.tp_skirt.rows) > 1
  /\ owt.tp_skirt.rows[1].elev_from = last.pre.pile_head.v

(* the can directly above the joint ends at pile_head, none reaches below *)
Bolted(o) ==
  /\ ~o.transition_piece.null /\ ~o.monopile.null /\ ~o.pile_head.null
  /\ \E i \in DOMAIN o.transition_piece.rows :
       /\ o.transition_piece.rows[i].elev_from > o.pile_head.v
       /\ o.transition_piece.rows[i].elev_to = o.pile_head.v
  /\ \A i \in DOMAIN o.transition_piece.rows :
       o.transition_piece.rows[i].elev_to >= o.pile_head.v

(* C6: on a bolted joint assembly_tp_mp completes and adjusts nothing: the *)
(* substructure is the transition-piece rows above the joint, as they      *)
(* were, followed by the monopile rows.                                    *)
C6_BoltedJoint ==
  (last.op = "assembly_tp_mp" /\ Bolted(last.pre))
    => /\ last.err = NoError
       /\ owt.substructure =
            DF(SelectSeq(last.pre.transition_piece.rows,
                         LAMBDA r : r.elev_from > last.pre.pile_head.v)
               \o last.pre.monopile.rows)

(* C7: with transition_piece or monopile null, assembly_tp_mp raises the *)
(* TypeError 'TP or MP items need to be processed before!' and assigns   *)
(* neither substructure nor tp_skirt.                                    *)
C7_JointNeedsTables ==
  (last.op = "assembly_tp_mp"
     /\ (last.pre.transition_piece.null \/ last.pre.monopile.null))
    => /\ last.err = "TypeError: TP or MP items need to be processed before!"
       /\ owt.substructure = last.pre.substructure
       /\ owt.tp_skirt = last.pre.tp_skirt

C7_Witness ==
  /\ last.op = "assembly_tp_mp"
  /\ ~last.pre.transition_piece.null
  /\ last.pre.monopile.null
  /\ last.err = "TypeError: TP or MP items need to be processed before!"
  /\ owt.substructure.null /\ owt.tp_skirt.null

HasJointParts(o) == {"TP", "MP"} \subseteq DOMAIN o.sub_assemblies
HasTower(o) == "TW" \in DOMAIN o.sub_assemblies

(* what C8 states of assembly_tp_mp, of the result slots and of the flags *)
C8_JointAndFlags ==
  /\ InList("assembly_tp_mp", last.calls) <=> HasJointParts(last.pre)
  /\ last.err = NoError
       => /\ owt._init_spec_part /\ owt._init_spec_full
          /\ ~HasJointParts(last.pre) => (owt.tp_skirt.null /\ owt.substructure.null)
          /\ ~InList("assembly_full_structure", last.calls) => owt.full_structure.null

(* C8 as stated: extend_dfs invokes assembly_tp_mp exactly when TP and MP  *)
(* subassemblies exist and assembly_full_structure exactly when a TW       *)
(* subassembly exists; the slots of a step not taken are null; on return   *)
(* both _init_spec_part and _init_spec_full are true.                      *)
C8_AsStated ==
  last.op = "extend_dfs"
    => /\ C8_JointAndFlags
       /\ last.err = NoError
            => (InList("assembly_full_structure", last.calls) <=> HasTower(last.pre))

(* C8 amended: extend_dfs invokes assembly_tp_mp exactly when TP and MP    *)
(* subassemblies exist, and assembly_full_structure only when a TW         *)
(* subassembly exists and substructure is not null after the joint step,   *)
(* and in that case always; the slots of a step not taken are null; on     *)
(* return both _init_spec_part and _init_spec_full are true.               *)
C8_Amended ==
  last.op = "extend_dfs"
    => /\ C8_JointAndFlags
       /\ InList("assembly_full_structure", last.calls)
            => (HasTower(last.pre) /\ ~owt.substructure.null)
       /\ (last.err = NoError /\ HasTower(last.pre) /\ ~owt.substructure.null)
            => InList("assembly_full_structure", last.calls)

C8_Witness ==
  /\ last.op = "extend_dfs"
  /\ last.err = NoError
  /\ HasTower(last.pre)
  /\ ~HasJointParts(last.pre)
  /\ ~last.pre.tower.null
  /\ last.calls = <<>>
  /\ owt.full_structure.null
  /\ owt._init_spec_full

(* the structural kind owning a derived table *)
OwnerOf(t) ==
  IF t \in TablesOf("TW") THEN "TW" ELSE IF t \in TablesOf("TP") THEN "TP" ELSE "MP"

(* C9: after extend_dfs every row of every non-null derived table carries  *)
(* the tag of the kind owning the table (TW for rna, tower, tw_lumped_mass; *)
(* TP for transition_piece, tp_lumped_mass, tp_distributed_mass, grout; MP  *)
(* for monopile, mp_lumped_mass, mp_distributed_mass), and pile_toe is as   *)
(* it was.                                                                  *)
C9_Tags ==
  last.op = "extend_dfs"
    => /\ \A t \in DerivedTables :
            ~owt[t].null
              => \A i \in DOMAIN owt[t].rows : owt[t].rows[i].Subassembly = OwnerOf(t)
       /\ owt.pile_toe = last.pre.pile_toe

C9_Witness ==
  /\ last.op = "extend_dfs"
  /\ \A t \in DerivedTables : ~owt[t].null /\ Len(owt[t].rows) > 0
  /\ owt.grout.rows[1].Subassembly = "TP"
  /\ owt.rna.rows[1].Subassembly = "TW"
  /\ ~owt.pile_toe.null

(* C10: BuildingBlock.type gives tubular_section when bottom_outer_diameter *)
(* is present (in the record, not None, not NaN); else lumped_mass when     *)
(* mass is present; else distributed_mass when mass_distribution is         *)
(* present; else it raises the classification error; exactly one of the     *)
(* four outcomes for every record.                                          *)
C10_TypePriority ==
  bb.read
    => LET has(k) == k \in DOMAIN bb.json /\ bb.json[k].st \notin {"absent", "none", "nan"}
           tubular == bb.result = [err |-> NoError, val |-> "tubular_section"]
           lumped == bb.result = [err |-> NoError, val |-> "lumped_mass"]
           distributed == bb.result = [err |-> NoError, val |-> "distributed_mass"]
           failed == bb.result.err = "ValueError: Could not find supported building block type."
       IN /\ has("bottom_outer_diameter") => tubular
          /\ (~has("bottom_outer_diameter") /\ has("mass")) => lumped
          /\ (~has("bottom_outer_diameter") /\ ~has("mass") /\ has("mass_distribution"))
               => distributed
          /\ (~has("bottom_outer_diameter") /\ ~has("mass") /\ ~has("mass_distribution"))
               => failed
          /\ Cardinality({x \in {<<1, tubular>>, <<2, lumped>>, <<3, distributed>>,
                                 <<4, failed>>} : x[2]}) = 1

C10_Witness ==
  /\ bb.read
  /\ bb.json.bottom_outer_diameter = Val(0)
  /\ bb.json.mass = Val(1)
  /\ bb.json.mass_distribution = NaN
  /\ bb.result.val = "tubular_section"

(***************************************************************************)
(* C11  SubAssembly.building_blocks is fetch-once: from a state in which   *)
(* self.bb holds the fetched blocks, no step changes self.bb, no step      *)
(* sends a request to the API, and every read (building_blocks, height,    *)
(* mass, outline, as_df, absolute_bottom, absolute_top) is handed the      *)
(* cached list each time it reads the property; a direct read returns it.  *)
(* last' is the read of the step, or the read before it when the step is a *)
(* change of the database.                                                 *)
(***************************************************************************)
C11_FetchOnce ==
  [][ ~subassembly.bb.null =>
        /\ subassembly'.bb = subassembly.bb
        /\ api'.calls = api.calls
        /\ last'.calls # <<>>
        /\ \A i \in 1..Len(last'.calls) : last'.calls[i] = subassembly.bb
        /\ last'.op = "building_blocks" =>
             last'.err = NoError /\ last'.val = subassembly.bb ]_vars

(* a read served from the cache after the records of the database changed *)
C11_Witness ==
  /\ last.op = "height"
  /\ ~last.pre.sa.bb.null
  /\ last.pre.api.db # last.pre.sa.bb.list
  /\ last.calls = <<subassembly.bb, subassembly.bb>>
  /\ api.calls = 1

(***************************************************************************)
(* C12  The can truncated by can_modification keeps its ratio Mass/Volume: *)
(* when pile_head lies strictly inside a can of the transition piece, the  *)
(* last transition-piece row of the substructure (truncated at its bottom) *)
(* and the first row of the skirt (truncated at its top) have a positive   *)
(* volume, and Mass * Volume-before = Mass-before * Volume for each of     *)
(* them, the can before being its row in the transition-piece table.       *)
(***************************************************************************)
SameDensity(before, after) ==
  /\ before.Volume > 0
  /\ after.Volume > 0
  /\ after.Mass * before.Volume = before.Mass * after.Volume

CutCan(o) ==
  The({ o.transition_piece.rows[i] : i \in { j \in DOMAIN o.transition_piece.rows :
          /\ o.transition_piece.rows[j].elev_from > o.pile_head.v
          /\ o.transition_piece.rows[j].elev_to < o.pile_head.v } })

C12_MassVolumeRatio ==
  (last.op = "assembly_tp_mp" /\ Straddles(last.pre) /\ last.err = NoError)
    => LET sub == owt.substructure.rows
           ntp == Len(sub) - Len(last.pre.monopile.rows)
       IN /\ sub[ntp].title = CutCan(last.pre).title
          /\ owt.tp_skirt.rows[1].title = CutCan(last.pre).title
          /\ SameDensity(CutCan(last.pre), sub[ntp])
          /\ SameDensity(CutCan(last.pre), owt.tp_skirt.rows[1])

(* a conical can cut in two parts of different volume *)
C12_Witness ==
  /\ last.op = "assembly_tp_mp"
  /\ Straddles(last.pre)
  /\ last.err = NoError
  /\ CutCan(last.pre).title = <<"tp", "can2">>
  /\ owt.tp_skirt.rows[1].Volume # CutCan(last.pre).Volume
  /\ owt.tp_skirt.rows[1].Volume
       # owt.substructure.rows[Len(owt.substructure.rows) - Len(last.pre.monopile.rows)].Volume
  /\ owt.tp_skirt.rows[1].Mass # CutCan(last.pre).Mass

(***************************************************************************)
(* C13  For a tubular section whose volume is a number, the volume is not  *)
(* negative, and with a wall thickness above zero the volume of the outer  *)
(* frustum is above the volume of the inner frustum.                       *)
(***************************************************************************)
C13_VolumeNonNegative ==
  (bb.read /\ type(bb.json).val = "tubular_section"
     /\ bb.result.err = NoError /\ bb.result.val.st = "val")
    => /\ bb.result.val.v >= 0
       /\ bb.json.wall_thickness.v > 0
            => volume_outer_cone(bb.json) > volume_inner_cone(bb.json)

(***************************************************************************)
(* C14  set_df_structure is repeatable: a call of set_df_structure or of   *)
(* process_structure leaves tower_base, pile_head and the three stored     *)
(* subassembly tables as they were, and set_df_structure(idx) returns after *)
(* the call what it returned before it, for idx tw, tp and mp: the same     *)
(* exception or the same rows with the same 'Elevation from' and            *)
(* 'Elevation to'.  By induction every call of a run returns the same.      *)
(***************************************************************************)
Elevations(r) ==
  [ err |-> r.err,
    columns |-> IF r.err = NoError
                THEN MapSeq(r.val.rows, LAMBDA row : <<row.title, row.elev_from, row.elev_to>>)
                ELSE <<>> ]

C14_Repeatable ==
  last.op \in {"set_df_structure", "process_structure"}
    => /\ owt.tower_base = last.pre.tower_base
       /\ owt.pile_head = last.pre.pile_head
       /\ owt.tw_sub_assemblies = last.pre.tw_sub_assemblies
       /\ owt.tp_sub_assemblies = last.pre.tp_sub_assemblies
       /\ owt.mp_sub_assemblies = last.pre.mp_sub_assemblies
       /\ \A idx \in {"tw", "tp", "mp"} :
            Elevations(set_df_structure(owt, idx)) = Elevations(set_df_structure(last.pre, idx))
       /\ (last.op = "set_df_structure" /\ last.err = NoError)
            => Elevations([err |-> NoError, val |-> last.val])
                 = Elevations(set_df_structure(owt, last.arg))

(* set_df_structure("mp") called on a turbine whose pile_toe an earlier *)
(* call of it has set                                                   *)
C14_Witness ==
  /\ last.op = "set_df_structure"
  /\ last.arg = "mp"
  /\ last.err = NoError
  /\ ~last.pre.pile_toe.null
  /\ Len(last.val.rows) = 2
  /\ owt.pile_toe = last.pre.pile_toe

(***************************************************************************)
(* C15  set_df_structure anchors the rows: with the table of idx and its   *)
(* anchor present, the call returns the rows of the table whose title      *)
(* holds idx (for tp: and not "grout"), each with 'Elevation to' = base +  *)
(* z/1000 and 'Elevation from' = 'Elevation to' + height/1000, where base  *)
(* is tower_base for tw, tower_base minus the summed height of the         *)
(* returned rows for tp, and pile_head minus the summed height of the      *)
(* returned rows for mp; for mp base is stored as pile_toe and nothing     *)
(* else changes, for tw and tp nothing changes.  Any other idx raises      *)
(* ValueError and changes nothing.                                         *)
(***************************************************************************)
TableOf(o, idx) ==
  IF idx = "tw" THEN o.tw_sub_assemblies
  ELSE IF idx = "tp" THEN o.tp_sub_assemblies ELSE o.mp_sub_assemblies

Selected(o, idx) ==
  SelectSeq(TableOf(o, idx).rows,
            LAMBDA r : (\E i \in DOMAIN r.title : r.title[i] = idx)
                       /\ (idx = "tp" => \A i \in DOMAIN r.title : r.title[i] # "grout"))

TotalHeightM(rows) == Sum([i \in DOMAIN rows |-> rows[i].height.v \div MmPerM])

BaseOf(o, idx) ==
  IF idx = "tw" THEN o.tower_base.v
  ELSE IF idx = "tp" THEN o.tower_base.v - TotalHeightM(Selected(o, idx))
  ELSE o.pile_head.v - TotalHeightM(Selected(o, idx))

Anchored(o, idx) ==
  /\ ~TableOf(o, idx).null
  /\ IF idx = "mp" THEN ~o.pile_head.null ELSE ~o.tower_base.null

C15_Anchoring ==
  last.op = "set_df_structure"
    => /\ last.arg \notin {"tw", "tp", "mp"}
            => last.err = "ValueError: Unknown index." /\ owt = last.pre
       /\ (last.arg \in {"tw", "tp", "mp"} /\ Anchored(last.pre, last.arg))
            => /\ last.err = NoError
               /\ Len(last.val.rows) = Len(Selected(last.pre, last.arg))
               /\ \A i \in DOMAIN last.val.rows :
                    /\ last.val.rows[i].title = Selected(last.pre, last.arg)[i].title
                    /\ last.val.rows[i].elev_to
                         = BaseOf(last.pre, last.arg)
                           + Selected(last.pre, last.arg)[i].z \div MmPerM
                    /\ last.val.rows[i].elev_from
                         = last.val.rows[i].elev_to
                           + Selected(last.pre, last.arg)[i].height.v \div MmPerM
               /\ owt = IF last.arg = "mp"
                        THEN [last.pre EXCEPT !.pile_toe = Some(BaseOf(last.pre, "mp"))]
                        ELSE last.pre

(* the transition piece: its can returned, its grout left out, its base *)
(* below the given tower_base by the height of the can                  *)
C15_Witness ==
  /\ last.op = "set_df_structure"
  /\ last.arg = "tp"
  /\ last.err = NoError
  /\ Len(last.val.rows) = 1
  /\ \E i \in DOMAIN last.pre.tp_sub_assemblies.rows :
       last.pre.tp_sub_assemblies.rows[i].title = <<"tp", "grout">>
  /\ last.pre.tower_base = Some(12)
  /\ last.val.rows[1].elev_to = 10
  /\ last.val.rows[1].elev_from = 12

(***************************************************************************)
(* C16  select_owt resolves a turbine by title or by position and changes  *)
(* nothing: with an int i from 0 below the length of the title list the    *)
(* fleet was built from, it returns what select_owt returns for the i-th   *)
(* title of that list; with a title of the fleet it returns the OWT stored *)
(* under the title; with an argument of another type it raises ValueError. *)
(***************************************************************************)
C16_SelectOwt ==
  last.op = "select_owt"
    => /\ fleet = last.pre
       /\ (last.arg.t = "int" /\ last.arg.v >= 0 /\ last.arg.v < Len(owt.turbines))
            => /\ last.err = NoError
               /\ last.val = fleet.owts[owt.turbines[last.arg.v + 1]]
       /\ (last.arg.t = "str" /\ last.arg.v \in Range(owt.turbines))
            => last.err = NoError /\ last.val = fleet.owts[last.arg.v]
       /\ last.arg.t \notin {"int", "str"}
            => last.err = "ValueError: You must specify a single turbine title or its index."

(***************************************************************************)
(* C17  After construction every title of the fleet's owts map has an      *)
(* entry in each of the maps sub_assemblies, tower_base, pile_head and     *)
(* water_depth, and the entry is that attribute of the OWT stored under    *)
(* the title.                                                              *)
(***************************************************************************)
C17_FanOut ==
  (fleet.exists /\ ~owt.null)
    => \A k \in DOMAIN fleet.owts :
         /\ k \in DOMAIN fleet.sub_assemblies /\ k \in DOMAIN fleet.tower_base
         /\ k \in DOMAIN fleet.pile_head /\ k \in DOMAIN fleet.water_depth
         /\ fleet.sub_assemblies[k] = fleet.owts[k].sub_assemblies
         /\ fleet.tower_base[k] = fleet.owts[k].tower_base
         /\ fleet.pile_head[k] = fleet.owts[k].pile_head
         /\ fleet.water_depth[k] = fleet.owts[k].water_depth

(***************************************************************************)
(* C18  process_structure accepts the options of its docstring: on a       *)
(* turbine with a tower, option "tower" returns with rna, tower and        *)
(* tw_lumped_mass set; with a transition piece, option "TP" returns with   *)
(* transition_piece, tp_lumped_mass, tp_distributed_mass and grout set;    *)
(* with a monopile, option "monopile" returns with monopile,               *)
(* mp_lumped_mass, mp_distributed_mass and pile_toe set.                   *)
(***************************************************************************)
C18_DocumentedOptions ==
  (last.op = "process_structure" /\ last.err = NoError)
    => /\ (last.arg = "tower" /\ ~last.pre.tw_sub_assemblies.null)
            => ~owt.rna.null /\ ~owt.tower.null /\ ~owt.tw_lumped_mass.null
       /\ (last.arg = "TP" /\ ~last.pre.tp_sub_assemblies.null)
            => /\ ~owt.transition_piece.null /\ ~owt.tp_lumped_mass.null
               /\ ~owt.tp_distributed_mass.null /\ ~owt.grout.null
       /\ (last.arg = "monopile" /\ ~last.pre.mp_sub_assemblies.null)
            => /\ ~owt.monopile.null /\ ~owt.mp_lumped_mass.null
               /\ ~owt.mp_distributed_mass.null /\ ~owt.pile_toe.null

(***************************************************************************)
(* C19  transform_monopile_geometry with a cutoff point that is not NaN    *)
(* truncates the stack at the cutoff: when it returns, every row of the    *)
(* returned table has an 'Elevation to' above the cutoff point, and the    *)
(* first row is a row of the table returned without cutoff, with its       *)
(* 'Elevation from' set to the cutoff point.                               *)
(***************************************************************************)
C19_Cutoff ==
  (last.op = "transform_monopile_geometry" /\ last.arg.st = "val" /\ last.err = NoError)
    => /\ \A i \in DOMAIN last.val.rows :
            /\ last.val.rows[i].elev_to.st = "val"
            /\ last.val.rows[i].elev_to.v > last.arg.v
       /\ Len(last.val.rows) >= 1
       /\ last.val.rows[1].elev_from = last.arg
       /\ \E i \in DOMAIN transform_monopile_geometry(last.pre, NaN).val.rows :
            [transform_monopile_geometry(last.pre, NaN).val.rows[i]
               EXCEPT !.elev_from = last.arg] = last.val.rows[1]

(***************************************************************************)
(* C20  transform_monopile_geometry raises ValueError whenever the turbine *)
(* has no monopile data: when mp_sub_assemblies is None and when there is  *)
(* no MP subassembly at all.                                               *)
(***************************************************************************)
C20_MissingMonopile ==
  (last.op = "transform_monopile_geometry"
     /\ (last.pre.mp_sub_assemblies.null \/ "MP" \notin DOMAIN last.pre.sub_assemblies))
    => last.err = "ValueError: Monopile subassembly data not found."

(* the call just made of get_owt_geometry_processor, on a database with *)
(* materials                                                            *)
Processed == last.op = "get_owt_geometry_processor" /\ last.pre.materials

Requested == IF last.arg.turbines.t = "str" THEN <<last.arg.turbines.v>>
             ELSE last.arg.turbines.v

(* the turbine at index i of the request, built on its own with the *)
(* elevations given at i                                            *)
BuiltAt(i) ==
  build_owt(last.pre, Requested[i], last.arg.tower_base, last.arg.monopile_head, i)

Succeeded == { i \in DOMAIN Requested : BuiltAt(i).err = NoError }

RECURSIVE TitlesAt(_, _)
TitlesAt(S, i) ==
  IF i > Len(Requested) THEN <<>>
  ELSE (IF i \in S THEN <<Requested[i]>> ELSE <<>>) \o TitlesAt(S, i + 1)

(* C21: get_owt_geometry_processor called with a non-empty list raises      *)
(* ValueError exactly when every turbine failed with a ValueError; else it  *)
(* returns an OWTs whose turbines are the succeeded titles in input order,  *)
(* each paired with the OWT built for it from the tower_base and            *)
(* monopile_head at its input index, and warns exactly when some failed.    *)
C21_FaultTolerance ==
  Processed
    => /\ (last.err = "ValueError") <=> (Succeeded = {})
       /\ Succeeded # {}
            => /\ last.err = NoError
               /\ fleet.owts_keys = TitlesAt(Succeeded, 1)
               /\ \A i \in Succeeded :
                    /\ Requested[i] \in DOMAIN fleet.owts
                    /\ fleet.owts[Requested[i]] = BuiltAt(i).val
                    /\ Requested[i] \in DOMAIN fleet.tower_base
                    /\ fleet.tower_base[Requested[i]] = BuiltAt(i).val.tower_base
                    /\ Requested[i] \in DOMAIN fleet.pile_head
                    /\ fleet.pile_head[Requested[i]] = BuiltAt(i).val.pile_head
               /\ (last.warn # NoWarning) <=> (Succeeded # DOMAIN Requested)
               /\ last.warn # NoWarning
                    => /\ last.warn.successful = TitlesAt(Succeeded, 1)
                       /\ Len(last.warn.errors) = Len(Requested) - Cardinality(Succeeded)

TypesOf(table) == { table[i].subassembly_type : i \in DOMAIN table }

Repeats(table) == Len(table) > Cardinality(TypesOf(table))

(* C30: every OWT of the OWTs returned by get_owt_geometry_processor was    *)
(* built from a subassembly table with pairwise distinct types, and its     *)
(* sub_assemblies map holds every subassembly of that table; a turbine with *)
(* a location whose table repeats a type is not in the OWTs and is listed   *)
(* among the errors.                                                        *)
C30_DistinctTypes ==
  Processed
    => /\ last.err = NoError
            => \A k \in Range(fleet.owts_keys) :
                 /\ ~Repeats(last.pre.subassemblies[k])
                 /\ DOMAIN fleet.owts[k].sub_assemblies = TypesOf(last.pre.subassemblies[k])
                 /\ \A i \in DOMAIN last.pre.subassemblies[k] :
                      fleet.owts[k].sub_assemblies[last.pre.subassemblies[k][i].subassembly_type]
                        = last.pre.subassemblies[k][i]
       /\ \A i \in DOMAIN Requested :
            (Repeats(last.pre.subassemblies[Requested[i]])
               /\ ~last.pre.locations[Requested[i]].null)
              => /\ last.err = NoError => ~InList(Requested[i], fleet.owts_keys)
                 /\ InList(<<"ValueError: Multiple model definitions found for turbine",
                             Requested[i]>>, last.calls)

C30_Witness ==
  /\ Processed
  /\ last.err = NoError
  /\ \E i \in DOMAIN Requested : Repeats(last.pre.subassemblies[Requested[i]])
  /\ InList(<<"ValueError: Multiple model definitions found for turbine", Title(1)>>,
            last.warn.errors)
  /\ fleet.owts_keys = <<Title(2)>>
  /\ Cardinality(DOMAIN fleet.owts[Title(2)].sub_assemblies) = 3

(* the calls that process_structures made on the turbine k, in order *)
CallsOn(k) == MapSeq(SelectSeq(last.calls, LAMBDA c : c[1] = k), LAMBDA c : <<c[2], c[3]>>)

(* the calls C22 states for a turbine: process_structure once for each kind *)
(* present, or once with "full" when TW, TP and MP are all there, and then  *)
(* extend_dfs                                                               *)
ExpectedCalls(o) ==
  (IF DOMAIN o.sub_assemblies = Kinds THEN << <<"process_structure", "full">> >>
   ELSE MapSeq(SelectSeq(<<"TW", "TP", "MP">>, LAMBDA kind : kind \in DOMAIN o.sub_assemblies),
               LAMBDA kind : <<"process_structure", kind>>))
  \o << <<"extend_dfs", "">> >>

IsPrefix(s, t) == Len(s) <= Len(t) /\ SubSeq(t, 1, Len(s)) = s

(* C22: in a call of process_structures that processes, the calls made on   *)
(* each turbine are process_structure once per kind present (never "full")  *)
(* unless TW, TP and MP are all present, then once with "full", followed by *)
(* one call of extend_dfs; a call that raised made a prefix of them.        *)
C22_PerKindOrFull ==
  (last.op = "process_structures" /\ ~last.pre._init)
    => \A i \in DOMAIN last.pre.owts_keys :
         LET k == last.pre.owts_keys[i]
         IN /\ last.err = NoError => CallsOn(k) = ExpectedCalls(last.pre.owts[k])
            /\ IsPrefix(CallsOn(k), ExpectedCalls(last.pre.owts[k]))

C22_Witness ==
  /\ last.op = "process_structures"
  /\ ~last.pre._init
  /\ last.err = NoError
  /\ Len(last.pre.owts_keys) = 2
  /\ CallsOn(Title(1)) = << <<"process_structure", "full">>, <<"extend_dfs", "">> >>
  /\ CallsOn(Title(2)) = << <<"process_structure", "TW">>, <<"process_structure", "MP">>,
                            <<"extend_dfs", "">> >>

(* the position of the turbine k in the owts map *)
KeyIndex(f, k) == CHOOSE i \in DOMAIN f.owts_keys : f.owts_keys[i] = k

(* the turbines whose processing, taken alone, raises *)
Failing(f) == { i \in DOMAIN f.owts_keys : process_turbine(f.owts[f.owts_keys[i]]).err # NoError }

(* C23: process_structures works through the turbines in the order of the  *)
(* owts map; when the processing of a turbine raises, the call raises that  *)
(* error, and no process_structure or extend_dfs call is made on a turbine  *)
(* after the first failing one.                                            *)
C23_AbortOnFirstError ==
  (last.op = "process_structures" /\ ~last.pre._init)
    => /\ \A i, j \in DOMAIN last.calls :
            i < j => KeyIndex(last.pre, last.calls[i][1]) <= KeyIndex(last.pre, last.calls[j][1])
       /\ Failing(last.pre) = {} => last.err = NoError
       /\ Failing(last.pre) # {}
            => LET first == CHOOSE i \in Failing(last.pre) : \A j \in Failing(last.pre) : i <= j
               IN /\ last.err = process_turbine(last.pre.owts[last.pre.owts_keys[first]]).err
                  /\ \A i \in 1..first : CallsOn(last.pre.owts_keys[i]) # <<>>
                  /\ \A i \in DOMAIN last.pre.owts_keys :
                       i > first => CallsOn(last.pre.owts_keys[i]) = <<>>

C23_Witness ==
  /\ last.op = "process_structures"
  /\ ~last.pre._init
  /\ last.err = "IndexError"
  /\ Len(last.pre.owts_keys) = 2
  /\ Failing(last.pre) = {1}
  /\ CallsOn(Title(1)) # <<>>
  /\ CallsOn(Title(2)) = <<>>

(* a fleet on which a call of process_structures was aborted: marked or  *)
(* not, its accumulators are lists still                                 *)
Aborted(f) == ~IsFrame(f.all_turbines) /\ \E i \in DOMAIN f.owts_keys : f.owts[f.owts_keys[i]]._init_proc

(* C24: after a call of process_structures that raised, _init is false, *)
(* and a later call on that fleet processes again: it calls             *)
(* process_structure on a turbine.                                      *)
C24_NotMarkedAfterAbort ==
  last.op = "process_structures"
    => /\ last.err # NoError => ~fleet._init
       /\ Aborted(last.pre) => last.calls # <<>>

(* C25: a call of assembly_tp_mp that raises because transition_piece or   *)
(* monopile is null leaves _init_spec_part false, and a call of            *)
(* assembly_full_structure that raises because substructure or tower is    *)
(* null leaves _init_spec_full false.                                      *)
C25_FailedStageNotMarked ==
  /\ (last.op = "assembly_tp_mp" /\ ~last.pre._init_spec_part
        /\ (last.pre.transition_piece.null \/ last.pre.monopile.null))
       => ~owt._init_spec_part
  /\ (last.op = "assembly_full_structure" /\ ~last.pre._init_spec_full
        /\ (last.pre.substructure.null \/ last.pre.tower.null))
       => ~owt._init_spec_full

(* substructure and tp_skirt are assigned: assembly_tp_mp has returned *)
Joined(o) == ~o.substructure.null /\ ~o.tp_skirt.null

(* C26: a read of an ATTR_PROC attribute after process_structure was      *)
(* called emits no warning, and a read of substructure or tp_skirt after  *)
(* assembly_tp_mp has returned emits no warning, whether or not           *)
(* assembly_full_structure has run.                                       *)
C26_WarnsOnlyBeforeStage ==
  last.op = "getattribute"
    => /\ (InList(last.arg, ATTR_PROC) /\ last.pre._init_proc) => last.warn = ""
       /\ (last.arg \in {"substructure", "tp_skirt"} /\ Joined(last.pre)) => last.warn = ""

(* the elevations the constructor derives from the subassemblies *)
DerivedTowerBase(sas) ==
  IF "TW" \in DOMAIN sas THEN Some(absolute_bottom(sas["TW"]))
  ELSE IF "TP" \in DOMAIN sas THEN Some(absolute_top(sas["TP"]))
  ELSE Null

DerivedPileHead(sas) ==
  IF "MP" \in DOMAIN sas THEN Some(absolute_top(sas["MP"])) ELSE Null

(* C27: the OWT stores the tower_base it was given and the pile_head it was *)
(* given, each whether or not the other was given; an elevation that was    *)
(* not given is derived from the subassemblies.                             *)
C27_GivenElevationStored ==
  last.op = "OWT"
    => /\ owt.tower_base = IF last.pre.tower_base.null
                           THEN DerivedTowerBase(owt.sub_assemblies)
                           ELSE last.pre.tower_base
       /\ owt.pile_head = IF last.pre.pile_head.null
                          THEN DerivedPileHead(owt.sub_assemblies)
                          ELSE last.pre.pile_head

(* the attributes of an OWT that assembly_tp_mp may assign *)
JointResults == {"substructure", "tp_skirt", "_init_spec_part"}

(* C28: a call of assembly_tp_mp, whatever its outcome, leaves every      *)
(* attribute of the OWT other than substructure, tp_skirt and             *)
(* _init_spec_part as it was: transition_piece, monopile, tower,          *)
(* pile_head, pile_toe, tower_base and the other derived tables.          *)
C28_JointFrame ==
  last.op = "assembly_tp_mp"
    => /\ DOMAIN owt = DOMAIN last.pre
       /\ \A a \in DOMAIN owt \ JointResults : owt[a] = last.pre[a]

(* the joint can is cut at pile_head in substructure and in tp_skirt and *)
(* is whole in transition_piece                                          *)
C28_Witness ==
  /\ last.op = "assembly_tp_mp"
  /\ last.err = NoError
  /\ Straddles(last.pre)
  /\ Straddles(owt)
  /\ owt.transition_piece = last.pre.transition_piece
  /\ \E i \in DOMAIN owt.substructure.rows, j \in DOMAIN owt.transition_piece.rows :
       /\ owt.substructure.rows[i].title = owt.transition_piece.rows[j].title
       /\ owt.substructure.rows[i].elev_to = owt.pile_head.v
       /\ owt.transition_piece.rows[j].elev_to < owt.pile_head.v
       /\ owt.substructure.rows[i].Mass # owt.transition_piece.rows[j].Mass
  /\ owt.tp_skirt.rows[1].elev_from = owt.pile_head.v

(* the steps that place the masses of the monopile at pile_toe + z *)
ReadsPileToe(step) == step[2] \in {"lump", "dist"} /\ step[3] = "MP"

(* the turbine as the first n steps of process_structure(option) leave it *)
AfterSteps(o, option, n) ==
  RunSteps([o EXCEPT !._init_proc = TRUE], SubSeq(StepsOf(option), 1, n))

(* C29: in process_structure with option "full" or "MP", whenever a step   *)
(* that places monopile masses at pile_toe + z is reached, pile_toe has     *)
(* been assigned by the monopile geometry step; the masses of a call that   *)
(* returned stand at the pile_toe it left.                                  *)
C29_PileToeBeforeMasses ==
  (last.op = "process_structure" /\ last.arg \in {"full", "MP"})
    => /\ \A n \in DOMAIN StepsOf(last.arg) :
            (ReadsPileToe(StepsOf(last.arg)[n])
               /\ AfterSteps(last.pre, last.arg, n - 1).err = NoError)
              => /\ ~AfterSteps(last.pre, last.arg, n - 1).o.pile_toe.null
                 /\ \E m \in 1..(n - 1) : StepsOf(last.arg)[m] = <<"monopile", "geom", "mp">>
       /\ last.err = NoError
            => /\ ~owt.pile_toe.null
               /\ \A i \in DOMAIN owt.mp_lumped_mass.rows :
                    owt.mp_lumped_mass.rows[i].Z >= owt.pile_toe.v
               /\ \A i \in DOMAIN owt.mp_distributed_mass.rows :
                    owt.mp_distributed_mass.rows[i].Z >= owt.pile_toe.v

C29_Witness ==
  /\ last.op = "process_structure"
  /\ last.arg = "MP"
  /\ last.pre.pile_toe.null
  /\ last.err = NoError
  /\ ~owt.pile_toe.null
  /\ Len(owt.mp_lumped_mass.rows) > 0
  /\ owt.mp_lumped_mass.rows[1].Z = owt.pile_toe.v + 1
  /\ Len(owt.mp_distributed_mass.rows) > 0

====
